---- MODULE Spec2Model ----
(***************************************************************************)
(* State-machine model of engram: the SQLite lineage index                 *)
(* (src/src/index/mod.rs, src/src/index/lineage.rs), the tape event parser *)
(* (src/src/tape/event.rs) and the ingest / record / gc commands           *)
(* (src/src/main.rs).                                                      *)
(*                                                                         *)
(* Confidences (f32 in [0,1]) are written in hundredths: 30 is 0.30.       *)
(* A tape id and an input hash are SHA-256 digests; the digest is modelled *)
(* as an injective naming of the hashed content.                           *)
(***************************************************************************)
EXTENDS Integers, Sequences, FiniteSets, TLC

VARIABLES evidence, edges, tombstones, files, tapes, cursor, last, steps

vars == <<evidence, edges, tombstones, files, tapes, cursor, last, steps>>

(* Bound on the number of commands of one behaviour. *)
MaxSteps == 4

----------------------------------------------------------------------------
(* Option<T> values.                                                       *)

(* F applied to the value of e, with e evaluated once. *)
LetIn(e, F(_)) == CHOOSE r \in { F(x) : x \in {e} } : TRUE

Some(v) == [some |-> TRUE, v |-> v]

NoneStr == [some |-> FALSE, v |-> ""]

NoneNum == [some |-> FALSE, v |-> 0]

FileRange(s, e) == [start |-> s, end |-> e]

NoneRange == [some |-> FALSE, v |-> FileRange(0, 0)]

----------------------------------------------------------------------------
(* index/lineage.rs                                                        *)

LINK_THRESHOLD_DEFAULT == 30

(* The mutant of stored_class: an exclusive threshold. *)
stored_class_strict(agent_link, confidence, link_threshold) ==
    IF agent_link \/ confidence > link_threshold THEN "lineage" ELSE "location_only"

stored_class(agent_link, confidence, link_threshold) ==
    IF agent_link \/ confidence >= link_threshold THEN "lineage" ELSE "location_only"

SpanEdge(from, to, confidence, delta, card, agent_link, note) ==
    [from_anchor |-> from, to_anchor |-> to, confidence |-> confidence,
     location_delta |-> delta, cardinality |-> card, agent_link |-> agent_link,
     note |-> note]

EvidenceFragmentRef(tape_id, offset, kind, file, ts) ==
    [tape_id |-> tape_id, event_offset |-> offset, kind |-> kind,
     file_path |-> file, timestamp |-> ts]

Tombstone(anchor_hashes, tape_id, offset, file, range, ts) ==
    [anchor_hashes |-> anchor_hashes, tape_id |-> tape_id, event_offset |-> offset,
     file_path |-> file, range_at_deletion |-> range, timestamp |-> ts]

----------------------------------------------------------------------------
(* index/mod.rs: the three tables of schema v1 and the row inserts.        *)
(* A table is the sequence of its rows in rowid order; a database value is *)
(* a record of the three tables.                                           *)

Db(ev, ed, tb) == [evidence |-> ev, edges |-> ed, tombstones |-> tb]

EmptyDb == Db(<<>>, <<>>, <<>>)

Rows(table) == { table[i] : i \in DOMAIN table }

Ok(db) == [ok |-> TRUE, db |-> db]

Err(db) == [ok |-> FALSE, db |-> db]

validate_anchor(anchor) == anchor # ""

(* The mutant of validate_confidence: every confidence is accepted. *)
validate_confidence_any(confidence) == TRUE

validate_confidence(confidence) == 0 <= confidence /\ confidence <= 100

(* UNIQUE(anchor, tape_id, event_offset, kind) *)
EvidenceKey(r) == <<r.anchor, r.tape_id, r.event_offset, r.kind>>

(* UNIQUE(anchor, tape_id, event_offset) *)
TombstoneKey(r) == <<r.anchor, r.tape_id, r.event_offset>>

(* CHECK (confidence >= 0.0 AND confidence <= 1.0) *)
EdgeCheck(r) == r.confidence >= 0 /\ r.confidence <= 100

(* The mutants of the three inserts: a table without its UNIQUE constraint. *)
InsertEvidenceNoUnique(table, r) == Append(table, r)

InsertTombstoneNoUnique(table, r) == Append(table, r)

InsertEdgeNoUnique(table, r) == IF ~EdgeCheck(r) THEN table ELSE Append(table, r)

(* INSERT OR IGNORE: a row that violates UNIQUE or CHECK is skipped, no error. *)
InsertOrIgnoreEvidence(table, r) ==
    IF \E x \in Rows(table) : EvidenceKey(x) = EvidenceKey(r) THEN table
    ELSE Append(table, r)

(* The mutant of InsertOrIgnoreTombstone: INSERT OR REPLACE, the row that  *)
(* holds the key is deleted and the new row is stored.                    *)
InsertOrReplaceTombstone(table, r) ==
    Append(SelectSeq(table, LAMBDA x : TombstoneKey(x) # TombstoneKey(r)), r)

InsertOrIgnoreTombstone(table, r) ==
    IF \E x \in Rows(table) : TombstoneKey(x) = TombstoneKey(r) THEN table
    ELSE Append(table, r)

(* UNIQUE(from_anchor, to_anchor, confidence, location_delta, cardinality, *)
(*        agent_link, note, stored_class)                                  *)
InsertOrIgnoreEdge(table, r) ==
    IF ~EdgeCheck(r) \/ r \in Rows(table) THEN table ELSE Append(table, r)

insert_evidence_on(db, anchor, fragment) ==
    IF ~validate_anchor(anchor) THEN Err(db)
    ELSE Ok([db EXCEPT !.evidence = InsertOrIgnoreEvidence(@,
                [anchor |-> anchor, tape_id |-> fragment.tape_id,
                 event_offset |-> fragment.event_offset, kind |-> fragment.kind,
                 file_path |-> fragment.file_path, timestamp |-> fragment.timestamp])])

insert_edge_on(db, edge, link_threshold) ==
    IF ~validate_anchor(edge.from_anchor) \/ ~validate_anchor(edge.to_anchor) THEN Err(db)
    ELSE Ok([db EXCEPT !.edges = InsertOrIgnoreEdge(@,
                [from_anchor |-> edge.from_anchor, to_anchor |-> edge.to_anchor,
                 confidence |-> edge.confidence,
                 location_delta |-> edge.location_delta,
                 cardinality |-> edge.cardinality,
                 agent_link |-> edge.agent_link,
                 note |-> IF edge.note.some THEN edge.note.v ELSE "",
                 stored_class |-> stored_class(edge.agent_link, edge.confidence,
                                               link_threshold)])])

RECURSIVE TombstoneAnchors(_, _, _)
TombstoneAnchors(db, tombstone, i) ==
    IF i > Len(tombstone.anchor_hashes) THEN Ok(db)
    ELSE IF ~validate_anchor(tombstone.anchor_hashes[i]) THEN Err(db)
    ELSE LetIn([db EXCEPT !.tombstones = InsertOrIgnoreTombstone(@,
                [anchor |-> tombstone.anchor_hashes[i], tape_id |-> tombstone.tape_id,
                 event_offset |-> tombstone.event_offset,
                 file_path |-> tombstone.file_path,
                 range_start |-> tombstone.range_at_deletion.start,
                 range_end |-> tombstone.range_at_deletion.end,
                 timestamp |-> tombstone.timestamp])],
               LAMBDA d : TombstoneAnchors(d, tombstone, i + 1))

insert_tombstone_on(db, tombstone) == TombstoneAnchors(db, tombstone, 1)

----------------------------------------------------------------------------
(* tape/event.rs: one JSONL line deserialised as RawEvent, and the typed   *)
(* event it becomes.  A tape document is a sequence of lines; a line is a  *)
(* JSON object, a blank line or text that is no RawEvent.                  *)

NoneVec == [some |-> FALSE, v |-> <<>>]

RawEvent == [t |-> 0, k |-> "", file |-> NoneStr, range |-> NoneRange,
             before_range |-> NoneRange, after_range |-> NoneRange,
             before_hash |-> NoneStr, after_hash |-> NoneStr,
             similarity |-> NoneNum, anchor_hashes |-> NoneVec,
             from_file |-> NoneStr, from_range |-> NoneRange,
             to_file |-> NoneStr, to_range |-> NoneRange, note |-> NoneStr]

JsonLine(raw) == [line |-> "json", raw |-> raw]

BlankLine == [line |-> "blank", raw |-> RawEvent]

MalformedLine == [line |-> "malformed", raw |-> RawEvent]

EventKinds == {"msg.in", "msg.out", "tool.call", "tool.result", "code.read",
               "code.edit", "span.link", "meta"}

to_kind(kind) == IF kind \in EventKinds THEN kind ELSE "unknown"

(* RawEvent::into_tape_event: a structured kind that lacks a required field *)
(* becomes Other.                                                           *)
into_tape_event(raw) ==
    LET data ==
          IF raw.k = "code.read"
            THEN (IF raw.file.some /\ raw.range.some THEN "CodeRead" ELSE "Other")
          ELSE IF raw.k = "code.edit"
            THEN (IF raw.file.some THEN "CodeEdit" ELSE "Other")
          ELSE IF raw.k = "span.link"
            THEN (IF raw.from_file.some /\ raw.from_range.some
                     /\ raw.to_file.some /\ raw.to_range.some
                  THEN "SpanLink" ELSE "Other")
          ELSE IF raw.k = "meta" THEN "Meta"
          ELSE "Other"
    IN [timestamp |-> raw.t, data |-> data, kind |-> to_kind(raw.k),
        file |-> raw.file.v,
        anchor_hashes |-> IF raw.anchor_hashes.some THEN raw.anchor_hashes.v ELSE <<>>,
        before_range |-> raw.before_range, after_range |-> raw.after_range,
        before_hash |-> raw.before_hash, after_hash |-> raw.after_hash,
        similarity |-> raw.similarity,
        from_file |-> raw.from_file.v, from_range |-> raw.from_range.v,
        to_file |-> raw.to_file.v, to_range |-> raw.to_range.v, note |-> raw.note]

TapeEventAt(offset, event) == [offset |-> offset, event |-> event]

(* The mutant of ParseLines: the offset counts the events, not the lines.  *)
RECURSIVE ParseLinesDense(_, _, _)
ParseLinesDense(doc, i, out) ==
    IF i > Len(doc) THEN [ok |-> TRUE, events |-> out]
    ELSE IF doc[i].line = "blank" THEN ParseLinesDense(doc, i + 1, out)
    ELSE IF doc[i].line = "malformed" THEN [ok |-> FALSE, events |-> <<>>]
    ELSE ParseLinesDense(doc, i + 1,
                    Append(out, TapeEventAt(Len(out), into_tape_event(doc[i].raw))))

(* parse_jsonl_events: offsets are 0-based line indices, blank lines are    *)
(* skipped, the first malformed line fails the whole call.                  *)
RECURSIVE ParseLines(_, _, _)
ParseLines(doc, i, out) ==
    IF i > Len(doc) THEN [ok |-> TRUE, events |-> out]
    ELSE IF doc[i].line = "blank" THEN ParseLines(doc, i + 1, out)
    ELSE IF doc[i].line = "malformed" THEN [ok |-> FALSE, events |-> <<>>]
    ELSE ParseLines(doc, i + 1,
                    Append(out, TapeEventAt(i - 1, into_tape_event(doc[i].raw))))

parse_jsonl_events(doc) == ParseLines(doc, 1, <<>>)

ParseIssue(line) == [line |-> line, error |-> "parse error"]

(* The mutant of ParseLinesLossy: the loop ends at the first malformed line. *)
ParseLinesLossyUntilError(doc, i, out, issues) ==
    LET first == { j \in DOMAIN doc : doc[j].line = "malformed" }
        stop == IF first = {} THEN Len(doc)
                ELSE CHOOSE j \in first : \A m \in first : j <= m
        strict == ParseLines([j \in 1 .. stop |->
                                IF doc[j].line = "malformed" THEN BlankLine ELSE doc[j]],
                             1, <<>>)
    IN [events |-> strict.events,
        issues |-> IF first = {} THEN <<>> ELSE <<ParseIssue(stop)>>]

(* parse_jsonl_events_lossy: a malformed line adds an issue with its 1-based *)
(* line number and the loop goes on.                                        *)
RECURSIVE ParseLinesLossy(_, _, _, _)
ParseLinesLossy(doc, i, out, issues) ==
    IF i > Len(doc) THEN [events |-> out, issues |-> issues]
    ELSE IF doc[i].line = "blank" THEN ParseLinesLossy(doc, i + 1, out, issues)
    ELSE IF doc[i].line = "malformed"
      THEN ParseLinesLossy(doc, i + 1, out, Append(issues, ParseIssue(i)))
    ELSE ParseLinesLossy(doc, i + 1,
                         Append(out, TapeEventAt(i - 1, into_tape_event(doc[i].raw))),
                         issues)

parse_jsonl_events_lossy(doc) == ParseLinesLossy(doc, 1, <<>>, <<>>)

----------------------------------------------------------------------------
(* index/mod.rs: ingest_tape_events.                                        *)

encode_span_link_anchor(file, range) ==
    "span:" \o file \o ":" \o ToString(range.start) \o "-" \o ToString(range.end)

(* `?` : the next insert runs only when the previous one returned Ok. *)
Then(res, F(_)) == LetIn(res, LAMBDA r : IF r.ok THEN F(r.db) ELSE r)

RECURSIVE ReadAnchors(_, _, _, _)
ReadAnchors(db, anchors, fragment, i) ==
    IF i > Len(anchors) THEN Ok(db)
    ELSE Then(insert_evidence_on(db, anchors[i], fragment),
              LAMBDA d : ReadAnchors(d, anchors, fragment, i + 1))

IngestCodeRead(db, tape_id, item) ==
    ReadAnchors(db, item.event.anchor_hashes,
                EvidenceFragmentRef(tape_id, item.offset, "read", item.event.file,
                                    item.event.timestamp), 1)

(* The mutant of EditConfidence: the adapter's similarity is kept for equal hashes. *)
EditConfidenceNoOverride(edit) ==
    IF edit.similarity.some THEN edit.similarity.v ELSE 0

EditConfidence(edit) ==
    IF edit.before_hash.v = edit.after_hash.v THEN 100
    ELSE IF edit.similarity.some THEN edit.similarity.v ELSE 0

(* The mutant of EditTombstoneRange: after_range is preferred. *)
EditTombstoneRangeAfterFirst(edit) ==
    IF edit.after_range.some THEN edit.after_range.v
    ELSE IF edit.before_range.some THEN edit.before_range.v
    ELSE FileRange(0, 0)

EditTombstoneRange(edit) ==
    IF edit.before_range.some THEN edit.before_range.v
    ELSE IF edit.after_range.some THEN edit.after_range.v
    ELSE FileRange(0, 0)

IngestCodeEdit(db, tape_id, item, link_threshold) ==
    LET edit == item.event
        fragment == EvidenceFragmentRef(tape_id, item.offset, "edit", edit.file,
                                        edit.timestamp)
        r1 == IF edit.before_hash.some
              THEN insert_evidence_on(db, edit.before_hash.v, fragment) ELSE Ok(db)
        r2 == Then(r1, LAMBDA d :
                IF edit.after_hash.some
                THEN insert_evidence_on(d, edit.after_hash.v, fragment) ELSE Ok(d))
        r3 == Then(r2, LAMBDA d :
                IF edit.before_hash.some /\ edit.after_hash.some
                THEN (IF ~validate_confidence(EditConfidence(edit)) THEN Err(d)
                      ELSE insert_edge_on(d,
                              SpanEdge(edit.before_hash.v, edit.after_hash.v,
                                       EditConfidence(edit), "same", "1:1", FALSE,
                                       NoneStr),
                              link_threshold))
                ELSE Ok(d))
    IN Then(r3, LAMBDA d :
          IF ~edit.after_hash.some /\ edit.before_hash.some
          THEN insert_tombstone_on(d,
                  Tombstone(<<edit.before_hash.v>>, tape_id, item.offset, edit.file,
                            EditTombstoneRange(edit), edit.timestamp))
          ELSE Ok(d))

(* The mutant of IngestSpanLink: the edge is not marked as an agent link. *)
IngestSpanLinkNotAgent(db, item, link_threshold) ==
    insert_edge_on(db,
        SpanEdge(encode_span_link_anchor(item.event.from_file, item.event.from_range),
                 encode_span_link_anchor(item.event.to_file, item.event.to_range),
                 100, "moved", "1:1", FALSE, item.event.note),
        link_threshold)

IngestSpanLink(db, item, link_threshold) ==
    insert_edge_on(db,
        SpanEdge(encode_span_link_anchor(item.event.from_file, item.event.from_range),
                 encode_span_link_anchor(item.event.to_file, item.event.to_range),
                 100, "moved", "1:1", TRUE, item.event.note),
        link_threshold)

IngestEvent(db, tape_id, item, link_threshold) ==
    IF item.event.data = "CodeRead" THEN IngestCodeRead(db, tape_id, item)
    ELSE IF item.event.data = "CodeEdit"
      THEN IngestCodeEdit(db, tape_id, item, link_threshold)
    ELSE IF item.event.data = "SpanLink" THEN IngestSpanLink(db, item, link_threshold)
    ELSE Ok(db)

(* The loop over the events inside the transaction.  io_fail = i > 0 is a    *)
(* storage error raised by the statement of the i-th event (or by the commit *)
(* when i = Len(events) + 1); 0 is no storage error.                        *)
RECURSIVE FoldEvents(_, _, _, _, _, _)
FoldEvents(db, tape_id, events, link_threshold, io_fail, i) ==
    IF i > Len(events) THEN (IF io_fail = i THEN Err(db) ELSE Ok(db))
    ELSE IF io_fail = i THEN Err(db)
    ELSE Then(IngestEvent(db, tape_id, events[i], link_threshold),
              LAMBDA d : FoldEvents(d, tape_id, events, link_threshold, io_fail, i + 1))

(* The mutant of TxOutcome: the inserts are not rolled back on an error. *)
TxOutcomeNoRollback(before, res) == res

(* unchecked_transaction / commit: dropping the transaction on an error     *)
(* return rolls every insert back.                                          *)
TxOutcome(before, res) == LetIn(res, LAMBDA r : IF r.ok THEN r ELSE Err(before))

ingest_tape_events(db, tape_id, events, link_threshold, io_fail) ==
    TxOutcome(db, FoldEvents(db, tape_id, events, link_threshold, io_fail, 1))

----------------------------------------------------------------------------
(* index/mod.rs: the edge queries.                                          *)

decode_stored_class(raw) == IF raw = "location_only" THEN "LocationOnly" ELSE "Lineage"

(* The mutant of EdgeSkipped: the location-only test is dropped. *)
EdgeSkippedByConfidenceOnly(r, min_confidence, include_forensics) ==
    /\ ~include_forensics
    /\ ~r.agent_link
    /\ r.confidence < min_confidence

(* The `continue` of the row loop in outbound_edges and inbound_edges. *)
EdgeSkipped(r, min_confidence, include_forensics) ==
    /\ ~include_forensics
    /\ ~r.agent_link
    /\ (decode_stored_class(r.stored_class) = "LocationOnly"
        \/ r.confidence < min_confidence)

EdgeRow(r) ==
    [from_anchor |-> r.from_anchor, to_anchor |-> r.to_anchor,
     confidence |-> r.confidence, location_delta |-> r.location_delta,
     cardinality |-> r.cardinality, agent_link |-> r.agent_link,
     note |-> IF r.note = "" THEN NoneStr ELSE Some(r.note),
     stored_class |-> decode_stored_class(r.stored_class)]

outbound_edges(db, from_anchor, min_confidence, include_forensics) ==
    { EdgeRow(r) : r \in { x \in Rows(db.edges) :
          x.from_anchor = from_anchor
          /\ ~EdgeSkipped(x, min_confidence, include_forensics) } }

inbound_edges(db, to_anchor, min_confidence, include_forensics) ==
    { EdgeRow(r) : r \in { x \in Rows(db.edges) :
          x.to_anchor = to_anchor
          /\ ~EdgeSkipped(x, min_confidence, include_forensics) } }

(* has_tape and referenced_tape_ids: only evidence and tombstones carry a   *)
(* tape_id column in schema v1.                                             *)
referenced_tape_ids(db) ==
    { r.tape_id : r \in Rows(db.evidence) } \cup { r.tape_id : r \in Rows(db.tombstones) }

has_tape(db, tape_id) ==
    \/ \E r \in Rows(db.evidence) : r.tape_id = tape_id
    \/ \E r \in Rows(db.tombstones) : r.tape_id = tape_id

----------------------------------------------------------------------------
(* The tapes and the source files of the model.                             *)

ReadLine(anchors) ==
    JsonLine([RawEvent EXCEPT !.t = 1, !.k = "code.read", !.file = Some("src/lib.rs"),
                              !.range = Some(FileRange(1, 1)),
                              !.anchor_hashes = Some(anchors)])

EditLine(before, after, sim) ==
    JsonLine([RawEvent EXCEPT !.t = 2, !.k = "code.edit", !.file = Some("src/lib.rs"),
                              !.before_range = Some(FileRange(10, 12)),
                              !.after_range = Some(FileRange(10, 13)),
                              !.before_hash = before, !.after_hash = after,
                              !.similarity = sim])

(* A code.edit line with a timestamp and ranges of the caller's choice. *)
EditLineAt(t, before, after, sim, before_range, after_range) ==
    JsonLine([RawEvent EXCEPT !.t = t, !.k = "code.edit", !.file = Some("src/lib.rs"),
                              !.before_range = before_range,
                              !.after_range = after_range,
                              !.before_hash = before, !.after_hash = after,
                              !.similarity = sim])

LinkLine ==
    JsonLine([RawEvent EXCEPT !.t = 3, !.k = "span.link",
                              !.from_file = Some("a.rs"),
                              !.from_range = Some(FileRange(1, 2)),
                              !.to_file = Some("b.rs"),
                              !.to_range = Some(FileRange(10, 20)),
                              !.note = Some("extract")])

MetaLine == JsonLine([RawEvent EXCEPT !.k = "meta"])

(* The normalized JSONL documents.  Docs[i] is the document whose SHA-256   *)
(* is tape id i.                                                            *)
Docs == <<
    << ReadLine(<<"a">>), EditLine(Some("a"), Some("b"), Some(80)) >>,
    << ReadLine(<<"a">>), ReadLine(<<"">>) >>,
    << MetaLine, LinkLine >>,
    << BlankLine, EditLine(Some("b"), NoneStr, NoneNum) >>,
    << ReadLine(<<"a">>), EditLine(Some("a"), Some("b"), Some(120)) >>,
    << EditLine(Some("a"), Some("b"), Some(30)), EditLine(Some("b"), Some("a"), Some(29)),
       EditLine(Some("b"), Some("b"), Some(20)) >>,
    << MalformedLine >>,
    << EditLine(Some("b"), Some("b"), Some(120)), EditLine(Some("a"), NoneStr, Some(-5)) >>,
    << EditLine(Some("a"), Some("b"), Some(-5)) >>,
    << EditLineAt(2, Some("b"), NoneStr, NoneNum, NoneRange, Some(FileRange(7, 9))),
       EditLineAt(2, Some("a"), NoneStr, NoneNum, NoneRange, NoneRange) >>,
    << EditLineAt(2, Some("a"), Some("b"), Some(80), NoneRange, NoneRange),
       EditLineAt(1, Some("a"), NoneStr, NoneNum, NoneRange, NoneRange) >>,
    << EditLine(Some("b"), Some("a"), NoneNum) >>
>>

TapeIds == DOMAIN Docs

(* tape_id_for_contents: SHA-256 of the normalized document. *)
tape_id_for_contents(doc) == CHOOSE i \in TapeIds : Docs[i] = doc

(* sha256_hex of a source file's bytes. *)
sha256_hex(content) == "sha256:" \o content

(* The source files named by the configuration, in resolve_source_files    *)
(* order (sorted by "<adapter>:<path>", deduplicated).                      *)
Candidates == << [path |-> "p1", adapter |-> "codex"],
                 [path |-> "p2", adapter |-> "codex"] >>

Paths == { Candidates[i].path : i \in DOMAIN Candidates }

StateKey(candidate) == candidate.adapter \o ":" \o candidate.path

StateKeys == { StateKey(Candidates[i]) : i \in DOMAIN Candidates }

(* The byte contents a source file can have; "unreadable" is a file that    *)
(* fs::read_to_string rejects.                                              *)
Contents == {"c1", "c2", "c3", "cbad"}

(* convert_with_adapter: the adapter bodies are collaborators; each content *)
(* converts to one normalized document or is rejected.                      *)
convert_with_adapter(adapter, input) ==
    IF input = "c1" THEN [ok |-> TRUE, doc |-> Docs[1]]
    ELSE IF input = "c2" THEN [ok |-> TRUE, doc |-> Docs[2]]
    ELSE IF input = "c3" THEN [ok |-> TRUE, doc |-> Docs[3]]
    ELSE [ok |-> FALSE, doc |-> <<>>]

----------------------------------------------------------------------------
(* State.                                                                   *)
(*   evidence, edges, tombstones : the tables of .engram/index.sqlite       *)
(*   files   : the bytes of each source file                                *)
(*   tapes   : .engram/tapes/<id>.jsonl.zst: "absent", "complete" or        *)
(*             "partial" (a file cut short by a failed fs::write)           *)
(*   cursor  : ingest-state.json, one entry per state key                   *)
(*   last    : the last operation, its arguments and what it returned       *)
(*   steps   : the number of commands and calls so far                      *)

CurDb == Db(evidence, edges, tombstones)

NoEntry == [present |-> FALSE, input_hash |-> "", adapter |-> "", tape_id |-> 0]

EmptyState == [k \in StateKeys |-> NoEntry]

NoOutcome == [k \in StateKeys |-> "none"]

(* The locals of a retrieve_lineage call that has not started. *)
NoTraversal == [pc |-> "idle", seeds |-> <<>>, queue |-> <<>>, visited |-> {},
                out |-> <<>>, expanded |-> <<>>, iterations |-> 0, touched |-> <<>>,
                min_confidence |-> 0, max_fanout |-> 0, max_edges |-> 0,
                max_depth |-> 0, include_forensics |-> FALSE, tie |-> "rowid"]

(* The record of an atomic_write call: its position, its argument, the      *)
(* target's content at the call, its temp file and the value it returned.   *)
NoWrite == [pc |-> "idle", bytes |-> "", before |-> "absent", tmp |-> "",
            result |-> "none"]

(* The record of two fingerprints: the tokens of T, the hash in use, the     *)
(* range of S in T and the two feature lists.                               *)
NoFingerprint == [tokens |-> <<>>, hash |-> "", start |-> 0, len |-> 0,
                  sub |-> <<>>, whole |-> <<>>]

(* The record of the parsing of one input: the input, the result of         *)
(* parse_jsonl_events, the result of parse_jsonl_events_lossy, and whether   *)
(* the events were ingested.                                                 *)
NoParse == [doc |-> <<>>, strict_done |-> FALSE, strict_ok |-> FALSE,
            strict_events |-> <<>>, lossy_done |-> FALSE, lossy_events |-> <<>>,
            issues |-> <<>>, ingested |-> FALSE]

(* The record of a run_conformance call: the adapter, what the adapter      *)
(* returned for the input (an error, or the rows of its output), and the    *)
(* value returned: an error, or the report.                                  *)
NoReport == [adapter |-> "", converted |-> FALSE, output |-> <<>>, done |-> FALSE,
             ok |-> FALSE, event_count |-> 0,
             coverage |-> [read |-> "", edit |-> "", tool |-> ""], issues |-> <<>>]

(* The record of a pretty_tier call: the arguments, the agent_link of the   *)
(* edge they were taken from, the tier returned, and what                   *)
(* included_in_default_traversal returns for the edge at the default        *)
(* min_confidence.                                                           *)
NoTier == [confidence |-> 0, moved |-> FALSE, location_only |-> FALSE,
           agent_link |-> FALSE, done |-> FALSE, tier |-> "", included |-> FALSE]

(* The record of a build_session_windows call: the lines of each tape       *)
(* ("touch": an event the explain result holds evidence of, "other": any    *)
(* other event, "blank": a blank line), the state of each tape file, the    *)
(* timestamp of each tape's events, and the value returned: an error, or    *)
(* the sessions.                                                             *)
NoSessions == [lines |-> <<>>, file |-> <<>>, timestamp |-> <<>>, done |-> FALSE,
               ok |-> FALSE, sessions |-> <<>>]

(* Two processes on one store: a command (ingest of one candidate, or       *)
(* record) handling tape_id, at position pc, with the tape_file_exists it   *)
(* read; and gc at position gc, with its referenced set, the directory      *)
(* entries that existed when it opened the directory, and those it visited. *)
NoRace == [cmd |-> "", tape_id |-> 0, pc |-> "start", tape_file_exists |-> FALSE,
           gc |-> "start", referenced |-> {}, listed |-> {}, visited |-> {}]

(* An open of the index taken statement by statement: the position of the  *)
(* process, the rows of the three *_legacy tables, the rows the legacy      *)
(* store held before the first open, the number of kills, and whether the   *)
(* open that ended returned Ok.                                              *)
NoMigration == [pc |-> "closed", legacy |-> [evidence |-> <<>>, edges |-> <<>>,
                                             tombstones |-> <<>>],
                original |-> [evidence |-> <<>>, edges |-> <<>>, tombstones |-> <<>>],
                kills |-> 0, ok |-> FALSE]

Last(cmd) == [cmd |-> cmd, ok |-> TRUE, status |-> "", outcome |-> NoOutcome,
              faulted |-> FALSE, tape_id |-> 0, events |-> <<>>, rows |-> {},
              query |-> <<"", "", 0, FALSE>>, link_threshold |-> 0, io_fail |-> 0,
              again |-> FALSE, after_run |-> FALSE, lineage |-> NoTraversal,
              include_deleted |-> FALSE, direct |-> <<>>, tombstones |-> <<>>,
              atomic |-> NoWrite, winnow |-> NoFingerprint, parse |-> NoParse,
              conformance |-> NoReport, tier |-> NoTier, explain |-> NoSessions,
              race |-> NoRace, migration |-> NoMigration]

InitCommon ==
    /\ evidence = <<>>
    /\ edges = <<>>
    /\ tombstones = <<>>
    /\ tapes = [t \in TapeIds |-> "absent"]
    /\ cursor = EmptyState
    /\ last = Last("init")
    /\ steps = 0

----------------------------------------------------------------------------
(* main.rs: cmd_ingest.                                                     *)

NoFault == [key |-> "", kind |-> "none"]

(* One injected I/O error per command: "write" fails fs::write before the   *)
(* file is created, "write_partial" fails it after part of the bytes are    *)
(* on disk, "sqlite" fails the commit of ingest_tape_events.                *)
FaultKinds == {"write", "write_partial", "sqlite"}

Abort(st, code) == [st EXCEPT !.err = code, !.faulted = TRUE]

Outcome(st, key, what) == [st EXCEPT !.outcome[key] = what]

(* The mutant of AlreadyIndexed: the has_tape short-circuit is dropped. *)
AlreadyIndexedNever(db, tape_id) == FALSE

AlreadyIndexed(db, tape_id) == has_tape(db, tape_id)

(* The body of the `for candidate in candidates` loop. *)
ProcessCandidate(st, candidate, fault) ==
    LET key == StateKey(candidate)
        input == files[candidate.path]
        input_hash == sha256_hex(input)
        converted == convert_with_adapter(candidate.adapter, input)
        parsed == parse_jsonl_events(converted.doc)
        tape_id == tape_id_for_contents(converted.doc)
        tape_file_exists == st.tapes[tape_id] # "absent"
        hit(kind) == fault.key = key /\ fault.kind = kind
        written == IF tape_file_exists THEN st
                   ELSE [st EXCEPT !.tapes[tape_id] = "complete"]
        folded == ingest_tape_events(st.db, tape_id, parsed.events,
                                     LINK_THRESHOLD_DEFAULT,
                                     IF hit("sqlite") THEN Len(parsed.events) + 1 ELSE 0)
        recorded(s) == [s EXCEPT !.state[key] =
                           [present |-> TRUE, input_hash |-> input_hash,
                            adapter |-> candidate.adapter, tape_id |-> tape_id]]
    IN IF input = "unreadable" THEN Outcome(st, key, "failed")
       ELSE IF st.state[key].present /\ st.state[key].input_hash = input_hash
         THEN Outcome(st, key, "skipped_unchanged")
       ELSE IF ~converted.ok THEN Outcome(st, key, "failed")
       ELSE IF ~parsed.ok THEN Outcome(st, key, "failed")
       ELSE IF ~tape_file_exists /\ hit("write")
         THEN Abort(Outcome(st, key, "aborted"), "write_error")
       ELSE IF ~tape_file_exists /\ hit("write_partial")
         THEN Abort(Outcome([st EXCEPT !.tapes[tape_id] = "partial"], key, "aborted"),
                    "write_error")
       ELSE IF AlreadyIndexed(st.db, tape_id)
         THEN recorded(Outcome(written, key, "skipped_existing_tape"))
       ELSE LetIn(folded, LAMBDA f :
              IF ~f.ok
              THEN [Outcome(written, key, "aborted") EXCEPT
                       !.err = "sqlite_error", !.faulted = hit("sqlite")]
              ELSE recorded(Outcome([written EXCEPT !.db = f.db], key, "imported")))

(* The loop; `?` on a write or index error leaves it at once. *)
RECURSIVE IngestLoop(_, _, _)
IngestLoop(st, i, fault) ==
    LetIn(st, LAMBDA s :
        IF i > Len(Candidates) \/ s.err # "" THEN s
        ELSE IngestLoop(ProcessCandidate(s, Candidates[i], fault), i + 1, fault))

Failures(outcome) == { k \in StateKeys : outcome[k] = "failed" }

Count(outcome, what) == Cardinality({ k \in StateKeys : outcome[k] = what })

cmd_ingest(fault) ==
    LET st0 == [db |-> CurDb, tapes |-> tapes, state |-> cursor,
                outcome |-> NoOutcome, err |-> "", faulted |-> FALSE]
    IN IngestLoop(st0, 1, fault)

CmdIngest ==
    /\ steps < MaxSteps
    /\ \E fault \in {NoFault} \cup [key : StateKeys, kind : FaultKinds] :
      \E fin \in {cmd_ingest(fault)} :
         /\ fault.kind # "none" => fin.faulted
         /\ evidence' = fin.db.evidence
         /\ edges' = fin.db.edges
         /\ tombstones' = fin.db.tombstones
         /\ tapes' = fin.tapes
         /\ cursor' = IF fin.err = "" THEN fin.state ELSE cursor
         /\ last' = [Last("ingest") EXCEPT
                       !.ok = (fin.err = ""),
                       !.status = IF fin.err # "" THEN "error"
                                  ELSE IF Failures(fin.outcome) = {} THEN "ok"
                                  ELSE "partial",
                       !.outcome = fin.outcome,
                       !.faulted = fin.faulted,
                       !.after_run = (last.cmd = "lose_cursor" /\ last.after_run)]
         /\ steps' = steps + 1
         /\ UNCHANGED files

----------------------------------------------------------------------------
(* main.rs: record_transcript, cmd_gc, and the environment.                 *)

(* The mutant of RecordNeedsIngest: an existing tape file is taken as a     *)
(* sign that the tape is indexed.                                           *)
RecordNeedsIngestOnlyWithoutFile(db, tape_id) ==
    ~has_tape(db, tape_id) /\ tapes[tape_id] = "absent"

(* if !already_indexed *)
RecordNeedsIngest(db, tape_id) == ~has_tape(db, tape_id)

(* The index is folded first, the tape file is written second. *)
record_transcript(transcript, fault) ==
    LET parsed == parse_jsonl_events(transcript)
        tape_id == tape_id_for_contents(transcript)
        tape_file_exists == tapes[tape_id] # "absent"
        already_indexed == ~RecordNeedsIngest(CurDb, tape_id)
        folded == IF already_indexed THEN Ok(CurDb)
                  ELSE ingest_tape_events(CurDb, tape_id, parsed.events,
                                          LINK_THRESHOLD_DEFAULT,
                                          IF fault = "sqlite"
                                          THEN Len(parsed.events) + 1 ELSE 0)
        st0 == [db |-> CurDb, tapes |-> tapes, err |-> "", faulted |-> FALSE,
                tape_id |-> tape_id]
    IN IF ~parsed.ok THEN [st0 EXCEPT !.err = "json_error", !.tape_id = 0]
       ELSE LetIn(folded, LAMBDA f :
         IF ~f.ok
           THEN [st0 EXCEPT !.err = "sqlite_error",
                            !.faulted = (~already_indexed /\ fault = "sqlite")]
         ELSE IF ~tape_file_exists /\ fault = "write"
           THEN [st0 EXCEPT !.db = f.db, !.err = "write_error", !.faulted = TRUE]
         ELSE IF ~tape_file_exists /\ fault = "write_partial"
           THEN [st0 EXCEPT !.db = f.db, !.tapes[tape_id] = "partial",
                            !.err = "write_error", !.faulted = TRUE]
         ELSE IF ~tape_file_exists
           THEN [st0 EXCEPT !.db = f.db, !.tapes[tape_id] = "complete"]
         ELSE [st0 EXCEPT !.db = f.db])

(* The transcripts given to `record`: a tape with evidence and an edge, one *)
(* with an invalid anchor, one without evidence, a deletion, a malformed one. *)
RecordedTapes == {1, 2, 3, 4, 7}

CmdRecord ==
    /\ steps < MaxSteps
    /\ \E i \in RecordedTapes, fault \in {"none"} \cup FaultKinds :
      \E fin \in {record_transcript(Docs[i], fault)} :
         /\ fault # "none" => fin.faulted
         /\ evidence' = fin.db.evidence
         /\ edges' = fin.db.edges
         /\ tombstones' = fin.db.tombstones
         /\ tapes' = fin.tapes
         /\ last' = [Last("record") EXCEPT
                       !.ok = (fin.err = ""),
                       !.status = IF fin.err = "" THEN "ok" ELSE "error",
                       !.faulted = fin.faulted,
                       !.tape_id = fin.tape_id]
         /\ steps' = steps + 1
         /\ UNCHANGED <<files, cursor>>

(* The mutant of GcKeeps: the test is inverted. *)
GcKeepsInverted(db, tape_id) == tape_id \notin referenced_tape_ids(db)

(* `referenced.contains(&tape_id)` *)
GcKeeps(db, tape_id) == tape_id \in referenced_tape_ids(db)

(* cmd_gc: every <id>.jsonl.zst whose id is not referenced is removed. *)
cmd_gc(db, dir) ==
    [t \in TapeIds |-> IF dir[t] # "absent" /\ ~GcKeeps(db, t) THEN "absent" ELSE dir[t]]

CmdGc ==
    /\ steps < MaxSteps
    /\ tapes' = cmd_gc(CurDb, tapes)
    /\ last' = [Last("gc") EXCEPT
                  !.rows = { t \in TapeIds : tapes[t] # "absent" /\ tapes'[t] = "absent" }]
    /\ steps' = steps + 1
    /\ UNCHANGED <<evidence, edges, tombstones, files, cursor>>

(* The cursor state file is lost: load_ingest_state returns the default.    *)
(* after_run: the loss follows an ingest run that met no I/O error (and, in *)
(* the record of an ingest run, the run follows such a loss).               *)
LoseCursor ==
    /\ cursor # EmptyState
    /\ cursor' = EmptyState
    /\ last' = [Last("lose_cursor") EXCEPT
                  !.after_run = (last.cmd = "ingest" /\ ~last.faulted)]
    /\ UNCHANGED <<evidence, edges, tombstones, files, tapes, steps>>

(* A source file gets other bytes. *)
WriteSource ==
    /\ steps < MaxSteps
    /\ \E p \in Paths, c \in Contents \cup {"unreadable"} :
      /\ files[p] # c
      /\ files' = [files EXCEPT ![p] = c]
      /\ last' = Last("write_source")
      /\ steps' = steps + 1
      /\ UNCHANGED <<evidence, edges, tombstones, tapes, cursor>>

Init ==
    /\ InitCommon
    /\ files = [p \in Paths |-> IF p = "p1" THEN "c1" ELSE "c3"]

Next == CmdIngest \/ CmdRecord \/ CmdGc \/ LoseCursor \/ WriteSource

Spec == Init /\ [][Next]_vars

----------------------------------------------------------------------------
(* The index used as a library: the calls of SqliteIndex on one open index. *)

(* Bound on the number of calls of one behaviour. *)
MaxIndexOps == 2

(* The thresholds a caller passes as link_threshold. *)
Thresholds == {LINK_THRESHOLD_DEFAULT, 50}

insert_evidence(db, anchor, fragment) ==
    IF ~validate_anchor(anchor) THEN Err(db) ELSE insert_evidence_on(db, anchor, fragment)

insert_edge(db, edge, link_threshold) ==
    IF ~validate_anchor(edge.from_anchor) \/ ~validate_anchor(edge.to_anchor) THEN Err(db)
    ELSE insert_edge_on(db, edge, link_threshold)

insert_tombstone(db, tombstone) == insert_tombstone_on(db, tombstone)

SetDb(db) ==
    /\ evidence' = db.evidence
    /\ edges' = db.edges
    /\ tombstones' = db.tombstones

InsertEvidence ==
    /\ steps < MaxIndexOps
    /\ \E anchor \in {"a", ""}, kind \in {"read", "tool"} :
      \E res \in {insert_evidence(CurDb, anchor,
                      EvidenceFragmentRef(1, 0, kind, "src/lib.rs", 1))} :
         /\ SetDb(res.db)
         /\ last' = [Last("insert_evidence") EXCEPT !.ok = res.ok]
    /\ steps' = steps + 1
    /\ UNCHANGED <<files, tapes, cursor>>

InsertEdge ==
    /\ steps < MaxIndexOps
    /\ \E ends \in {<<"a", "b">>, <<"b", "a">>, <<"", "b">>},
          confidence \in {29, 30, 40, 101}, agent_link \in BOOLEAN,
          link_threshold \in Thresholds :
      \E res \in {insert_edge(CurDb,
                      SpanEdge(ends[1], ends[2], confidence, "moved", "1:1", agent_link,
                               NoneStr),
                      link_threshold)} :
         /\ SetDb(res.db)
         /\ last' = [Last("insert_edge") EXCEPT !.ok = res.ok,
                                                !.query = <<ends[1], ends[2], confidence>>,
                                                !.link_threshold = link_threshold]
    /\ steps' = steps + 1
    /\ UNCHANGED <<files, tapes, cursor>>

InsertTombstone ==
    /\ steps < MaxIndexOps
    /\ \E anchors \in {<<"b">>, <<"b", "">>},
          range \in {FileRange(10, 12), FileRange(20, 22)} :
      \E res \in {insert_tombstone(CurDb,
                      Tombstone(anchors, 4, 1, "src/lib.rs", range, 2))} :
         /\ SetDb(res.db)
         /\ last' = [Last("insert_tombstone") EXCEPT !.ok = res.ok]
    /\ steps' = steps + 1
    /\ UNCHANGED <<files, tapes, cursor>>

(* The tapes whose documents parse. *)
ParsedTapes == { t \in TapeIds : parse_jsonl_events(Docs[t]).ok }

IngestTapeEvents ==
    /\ steps < MaxIndexOps
    /\ \E t \in ParsedTapes, link_threshold \in Thresholds :
      \E events \in {parse_jsonl_events(Docs[t]).events} :
        \E io_fail \in 0 .. Len(events) + 1 :
          \E res \in {ingest_tape_events(CurDb, t, events, link_threshold, io_fail)} :
             /\ SetDb(res.db)
             /\ last' = [Last("ingest_tape_events") EXCEPT
                           !.ok = res.ok, !.tape_id = t, !.events = events,
                           !.link_threshold = link_threshold, !.io_fail = io_fail,
                           !.again = (last.cmd = "ingest_tape_events" /\ last.ok
                                      /\ last.tape_id = t /\ last.events = events
                                      /\ last.link_threshold = link_threshold)]
    /\ steps' = steps + 1
    /\ UNCHANGED <<files, tapes, cursor>>

QueryEdges ==
    /\ steps < MaxIndexOps
    /\ \E dir \in {"outbound", "inbound"}, anchor \in {"a", "b"},
          min_confidence \in {0, 30, 50}, include_forensics \in BOOLEAN :
         last' = [Last(dir) EXCEPT
                    !.query = <<dir, anchor, min_confidence, include_forensics>>,
                    !.rows = IF dir = "outbound"
                             THEN outbound_edges(CurDb, anchor, min_confidence,
                                                 include_forensics)
                             ELSE inbound_edges(CurDb, anchor, min_confidence,
                                                include_forensics)]
    /\ steps' = steps + 1
    /\ UNCHANGED <<evidence, edges, tombstones, files, tapes, cursor>>

NextIndex ==
    InsertEvidence \/ InsertEdge \/ InsertTombstone \/ IngestTapeEvents \/ QueryEdges

SpecIndex == Init /\ [][NextIndex]_vars

----------------------------------------------------------------------------
(* Properties of the index.                                                 *)

TablesUnchanged == evidence' = evidence /\ edges' = edges /\ tombstones' = tombstones

(* C1: when ingest_tape_events fails on any event (empty anchor, confidence *)
(* out of range, storage error), the index holds exactly the rows it held   *)
(* before the call, the rows of the events before the failing one included. *)
C1_FailedIngestLeavesNoRow ==
    [][(last'.cmd = "ingest_tape_events" /\ ~last'.ok) => TablesUnchanged]_vars

(* A failed call whose first events had inserted rows before the failure. *)
C1_Witness ==
    /\ last.cmd = "ingest_tape_events"
    /\ ~last.ok
    /\ FoldEvents(CurDb, last.tape_id, last.events, last.link_threshold,
                  last.io_fail, 1).db # CurDb

(* C2: a second ingest_tape_events with the same tape id and the same event *)
(* list (and threshold) right after a successful one leaves the three       *)
(* tables exactly as the first call left them.                              *)
C2_ReingestAddsNoRow ==
    [][(/\ last.cmd = "ingest_tape_events"
        /\ last.ok
        /\ last'.cmd = "ingest_tape_events"
        /\ last'.tape_id = last.tape_id
        /\ last'.events = last.events
        /\ last'.link_threshold = last.link_threshold) => TablesUnchanged]_vars

(* The second, successful call for a tape whose events produce evidence and  *)
(* edge rows.                                                               *)
C2_Witness ==
    /\ last.cmd = "ingest_tape_events"
    /\ last.again
    /\ last.ok
    /\ \E r \in Rows(evidence) : r.tape_id = last.tape_id
    /\ edges # <<>>

(* C6: every row that insert_edge or ingest_tape_events adds to edges has   *)
(* stored_class lineage iff it is an agent link or its confidence is at     *)
(* least the link_threshold of the call, and location_only otherwise.       *)
C6_StoredClassOfNewRows ==
    [][\A i \in DOMAIN edges' :
          i > Len(edges) =>
             edges'[i].stored_class =
                IF edges'[i].agent_link \/ edges'[i].confidence >= last'.link_threshold
                THEN "lineage" ELSE "location_only"]_vars

(* A non-agent edge stored with a confidence equal to the threshold. *)
C6_Witness ==
    /\ last.cmd \in {"insert_edge", "ingest_tape_events"}
    /\ \E r \in Rows(edges) :
          /\ ~r.agent_link
          /\ r.confidence = last.link_threshold
          /\ r.stored_class = "lineage"

(* The stored edge r is among the rows the last query returned. *)
Returned(r) ==
    \E e \in last.rows :
       /\ e.from_anchor = r.from_anchor
       /\ e.to_anchor = r.to_anchor
       /\ e.confidence = r.confidence
       /\ e.agent_link = r.agent_link
       /\ e.location_delta = r.location_delta
       /\ (e.stored_class = "Lineage") = (r.stored_class = "lineage")

(* The stored edges of the anchor the last query asked about. *)
EdgesOfQuery ==
    { r \in Rows(edges) :
         IF last.query[1] = "outbound" THEN r.from_anchor = last.query[2]
         ELSE r.to_anchor = last.query[2] }

(* C7: outbound_edges and inbound_edges return a stored edge of the queried *)
(* anchor iff include_forensics is set, or the edge is an agent link, or    *)
(* its stored class is lineage and its confidence >= min_confidence; and    *)
(* they return nothing else.                                                *)
C7_VisibilityRule ==
    last.cmd \in {"outbound", "inbound"} =>
       /\ \A r \in EdgesOfQuery :
             Returned(r) <=> \/ last.query[4]
                             \/ r.agent_link
                             \/ (r.stored_class = "lineage"
                                 /\ r.confidence >= last.query[3])
       /\ \A e \in last.rows : \E r \in EdgesOfQuery : Returned(r) /\ e = EdgeRow(r)

(* A query without forensics that hides a location-only edge whose          *)
(* confidence is above min_confidence.                                      *)
C7_Witness ==
    /\ last.cmd \in {"outbound", "inbound"}
    /\ ~last.query[4]
    /\ \E r \in EdgesOfQuery :
          /\ ~r.agent_link
          /\ r.stored_class = "location_only"
          /\ r.confidence >= last.query[3]
          /\ ~Returned(r)

----------------------------------------------------------------------------
(* Properties of the commands.                                              *)

(* What ingesting tape t alone into an empty index returns. *)
TapeIngest(t) ==
    ingest_tape_events(EmptyDb, t, parse_jsonl_events(Docs[t]).events,
                       LINK_THRESHOLD_DEFAULT, 0)

(* A row of evidence or tombstones carries tape id t. *)
RowWithTapeId(ev, tb, t) ==
    \/ \E r \in Rows(ev) : r.tape_id = t
    \/ \E r \in Rows(tb) : r.tape_id = t

(* The ingest of every tape of the catalogue into an empty index. *)
TapeRows == [t \in TapeIds |-> TapeIngest(t)]

(* The rows of tape t are in the index: its events ingest and every row     *)
(* they produce is present.                                                 *)
IndexRowsExist(t) ==
    /\ TapeRows[t].ok
    /\ Rows(TapeRows[t].db.evidence) \subseteq Rows(evidence)
    /\ Rows(TapeRows[t].db.edges) \subseteq Rows(edges)
    /\ Rows(TapeRows[t].db.tombstones) \subseteq Rows(tombstones)

(* C3: after any ingest or record command ends, with success or with an     *)
(* error, for every tape id either its tape file exists and its index rows  *)
(* exist, or there is no file and no row of it.                             *)
C3_FileAndRowsTogether ==
    last.cmd \in {"ingest", "record"} =>
       \A t \in TapeIds :
          \/ tapes[t] # "absent" /\ IndexRowsExist(t)
          \/ tapes[t] = "absent" /\ ~RowWithTapeId(evidence, tombstones, t)

(* C4: in the ingest command an error on one input file is added to the     *)
(* failure list and every remaining input is still processed; the status is *)
(* ok iff the failure list is empty, else partial.                          *)
C4_FailuresCollected ==
    last.cmd = "ingest" =>
       /\ \A k \in StateKeys :
             last.outcome[k] \in {"failed", "imported", "skipped_unchanged",
                                  "skipped_existing_tape"}
       /\ last.status = IF Failures(last.outcome) = {} THEN "ok" ELSE "partial"

(* An edge row that the events of tape t produce is in the index. *)
EdgeRowOfTape(t) == Rows(TapeIngest(t).db.edges) \cap Rows(edges) # {}

TapeOf(candidate) ==
    tape_id_for_contents(convert_with_adapter(candidate.adapter,
                                              files[candidate.path]).doc)

Imported(outcome, candidate) == outcome[StateKey(candidate)] = "imported"

C9_SecondRunSkipsUnchanged ==
    [][(/\ last.cmd = "ingest" /\ ~last.faulted
        /\ last'.cmd = "ingest" /\ ~last'.faulted) =>
         /\ Count(last'.outcome, "imported") = 0
         /\ \A k \in StateKeys :
               last.outcome[k] \in {"imported", "skipped_existing_tape",
                                    "skipped_unchanged"}
               => last'.outcome[k] = "skipped_unchanged"]_vars

----------------------------------------------------------------------------
(* index/mod.rs: the ordered results of the queries.                        *)

(* The rows of seq that satisfy Keep, in their order. *)
RECURSIVE SelectRows(_, _, _)
SelectRows(seq, Keep(_), i) ==
    IF i > Len(seq) THEN <<>>
    ELSE IF Keep(seq[i]) THEN <<seq[i]>> \o SelectRows(seq, Keep, i + 1)
    ELSE SelectRows(seq, Keep, i + 1)

(* ORDER BY confidence DESC.  SQLite leaves the order of rows with equal    *)
(* confidence open: tie is "rowid" (insertion order) or "reverse".          *)
EdgeBefore(rows, j, i, tie) ==
    \/ rows[j].confidence > rows[i].confidence
    \/ /\ rows[j].confidence = rows[i].confidence
       /\ IF tie = "rowid" THEN j < i ELSE j > i

OrderByConfidenceDesc(rows, tie) ==
    [k \in 1 .. Len(rows) |->
        rows[CHOOSE i \in 1 .. Len(rows) :
                Cardinality({ j \in 1 .. Len(rows) : EdgeBefore(rows, j, i, tie) }) = k - 1]]

(* inbound_edges as the Vec it returns. *)
inbound_edges_vec(db, to_anchor, min_confidence, include_forensics, tie) ==
    LET sorted == OrderByConfidenceDesc(
                     SelectRows(db.edges, LAMBDA x : x.to_anchor = to_anchor, 1), tie)
        kept == SelectRows(sorted,
                           LAMBDA x : ~EdgeSkipped(x, min_confidence, include_forensics), 1)
    IN [k \in 1 .. Len(kept) |-> EdgeRow(kept[k])]

(* outbound_edges as the Vec it returns. *)
outbound_edges_vec(db, from_anchor, min_confidence, include_forensics, tie) ==
    LET sorted == OrderByConfidenceDesc(
                     SelectRows(db.edges, LAMBDA x : x.from_anchor = from_anchor, 1), tie)
        kept == SelectRows(sorted,
                           LAMBDA x : ~EdgeSkipped(x, min_confidence, include_forensics), 1)
    IN [k \in 1 .. Len(kept) |-> EdgeRow(kept[k])]

----------------------------------------------------------------------------
(* query/explain.rs: retrieve_lineage, one iteration of its while loop per  *)
(* step.                                                                    *)

MIN_CONFIDENCE_DEFAULT == 50

(* The mutant of Take: every edge of the anchor is followed. *)
TakeAll(seq, n) == seq

(* `.take(traversal.max_fanout)` *)
Take(seq, n) == SubSeq(seq, 1, IF n < Len(seq) THEN n ELSE Len(seq))

(* The mutant of DepthReached: the depth limit is exclusive. *)
DepthReachedStrict(depth, max_depth) == depth > max_depth

(* `if depth >= traversal.max_depth { continue; }` *)
DepthReached(depth, max_depth) == depth >= max_depth

(* The mutant of AlreadyVisited: no visited set. *)
AlreadyVisitedNever(visited, anchor) == FALSE

(* `if !visited.insert(anchor.clone()) { continue; }` *)
AlreadyVisited(visited, anchor) == anchor \in visited

(* The mutant of push_back: the anchor goes to the front of the queue. *)
push_front(queue, item) == << item >> \o queue

(* `queue.push_back((edge.from_anchor.clone(), depth + 1))` *)
push_back(queue, item) == Append(queue, item)

(* The for loop over the edges of one anchor. *)
RECURSIVE ExpandEdges(_, _, _, _)
ExpandEdges(t, found, depth, i) ==
    IF i > Len(found) \/ Len(t.out) >= t.max_edges THEN t
    ELSE ExpandEdges(
           [t EXCEPT !.queue = IF found[i].from_anchor \in t.visited THEN @
                               ELSE push_back(@, [anchor |-> found[i].from_anchor,
                                                  depth |-> depth + 1]),
                     !.out = Append(@, found[i])],
           found, depth, i + 1)

(* One iteration of `while let Some((anchor, depth)) = queue.pop_front()`.  *)
LineageIteration(db, t) ==
    LET head == Head(t.queue)
        popped == [t EXCEPT !.queue = Tail(@), !.iterations = @ + 1]
        marked == [popped EXCEPT !.visited = @ \cup {head.anchor}]
    IN IF AlreadyVisited(t.visited, head.anchor) THEN popped
       ELSE IF Len(t.out) >= t.max_edges THEN [marked EXCEPT !.pc = "done"]
       ELSE IF DepthReached(head.depth, t.max_depth) THEN marked
       ELSE ExpandEdges([marked EXCEPT !.expanded = Append(@, head)],
                        Take(inbound_edges_vec(db, head.anchor, t.min_confidence,
                                               t.include_forensics, t.tie),
                             t.max_fanout),
                        head.depth, 1)

MAX_FANOUT_DEFAULT == 50

MAX_EDGES_DEFAULT == 500

MAX_DEPTH_DEFAULT == 10

(* Largest max_depth a query of the model asks for. *)
MaxDepthArg == 3

(* The edges an index of the model may hold before a query: a chain         *)
(* a -> b -> c, the back edge c -> a, a self-loop on b (an edit with equal  *)
(* hashes), a weak edge a -> c and a second strong edge into c.             *)
GraphEdges == <<
    SpanEdge("a", "b", 90, "moved", "1:1", FALSE, NoneStr),
    SpanEdge("b", "c", 90, "moved", "1:1", FALSE, NoneStr),
    SpanEdge("c", "a", 90, "moved", "1:1", FALSE, NoneStr),
    SpanEdge("b", "b", 100, "same", "1:1", FALSE, NoneStr),
    SpanEdge("a", "c", 40, "moved", "1:1", FALSE, NoneStr),
    SpanEdge("d", "c", 90, "moved", "1:1", FALSE, NoneStr)
>>

(* insert_edge for every edge of GraphEdges whose index is in chosen. *)
RECURSIVE BuildGraph(_, _, _)
BuildGraph(db, chosen, i) ==
    IF i > Len(GraphEdges) THEN db
    ELSE BuildGraph(IF i \in chosen
                    THEN insert_edge(db, GraphEdges[i], LINK_THRESHOLD_DEFAULT).db
                    ELSE db,
                    chosen, i + 1)

InitExplain ==
    /\ \E chosen \in SUBSET (DOMAIN GraphEdges) :
          edges = BuildGraph(EmptyDb, chosen, 1).edges
    /\ evidence = <<>>
    /\ tombstones = <<>>
    /\ tapes = [t \in TapeIds |-> "absent"]
    /\ cursor = EmptyState
    /\ files = [p \in Paths |-> "c1"]
    /\ last = Last("init")
    /\ steps = 0

(* retrieve_lineage is called: the queue holds the seeds at depth 0. *)
StartLineage ==
    /\ last.lineage.pc = "idle"
    /\ \E seeds \in {<<"c">>, <<"c", "b">>, <<"b", "b">>},
          max_depth \in 0 .. MaxDepthArg,
          max_fanout \in {1, MAX_FANOUT_DEFAULT},
          max_edges \in {0, 1, 2, MAX_EDGES_DEFAULT},
          include_forensics \in BOOLEAN,
          tie \in {"rowid", "reverse"} :
         last' = [Last("retrieve_lineage") EXCEPT
                    !.lineage = [NoTraversal EXCEPT
                       !.pc = "loop", !.seeds = seeds,
                       !.queue = [k \in DOMAIN seeds |->
                                     [anchor |-> seeds[k], depth |-> 0]],
                       !.min_confidence = MIN_CONFIDENCE_DEFAULT,
                       !.max_fanout = max_fanout, !.max_edges = max_edges,
                       !.max_depth = max_depth,
                       !.include_forensics = include_forensics, !.tie = tie]]
    /\ UNCHANGED <<evidence, edges, tombstones, files, tapes, cursor, steps>>

(* touched_anchors: the seeds, then the endpoints of the lineage edges that *)
(* `seen` does not hold yet.                                                *)
RECURSIVE TouchedAnchors(_, _, _)
TouchedAnchors(touched, lineage, i) ==
    IF i > Len(lineage) THEN touched
    ELSE LET seen == { touched[k] : k \in DOMAIN touched }
             withFrom == IF lineage[i].from_anchor \in seen THEN touched
                         ELSE Append(touched, lineage[i].from_anchor)
             withTo == IF lineage[i].to_anchor \in seen \cup {lineage[i].from_anchor}
                       THEN withFrom ELSE Append(withFrom, lineage[i].to_anchor)
         IN TouchedAnchors(withTo, lineage, i + 1)

(* The loop test and, when the queue is not empty, one iteration; when the  *)
(* loop ends, explain_by_anchor builds touched_anchors from the seeds and   *)
(* the returned edges.                                                      *)
LineageStep ==
    /\ last.lineage.pc = "loop"
    /\ \E t \in {IF last.lineage.queue = <<>> THEN [last.lineage EXCEPT !.pc = "done"]
                  ELSE LineageIteration(CurDb, last.lineage)} :
         last' = [last EXCEPT !.lineage =
                    IF t.pc = "done"
                    THEN [t EXCEPT !.touched = TouchedAnchors(t.seeds, t.out, 1)]
                    ELSE t]
    /\ UNCHANGED <<evidence, edges, tombstones, files, tapes, cursor, steps>>

NextExplain == StartLineage \/ LineageStep

SpecExplain == InitExplain /\ [][NextExplain]_vars

----------------------------------------------------------------------------
(* Properties of retrieve_lineage.                                          *)

(* The anchors at most n inbound hops away from a seed over the stored edges. *)
RECURSIVE Within(_)
Within(n) ==
    IF n = 0 THEN { last.lineage.seeds[k] : k \in DOMAIN last.lineage.seeds }
    ELSE Within(n - 1)
         \cup { r.from_anchor : r \in { x \in Rows(edges) : x.to_anchor \in Within(n - 1) } }

(* C11: retrieve_lineage never expands an anchor dequeued at depth >=       *)
(* max_depth; every returned edge leads into an anchor fewer than max_depth *)
(* inbound hops away from a seed, and with max_depth = 0 nothing is         *)
(* returned.                                                                *)
C11_DepthLimit ==
    LET t == last.lineage
    IN /\ \A k \in DOMAIN t.expanded : t.expanded[k].depth < t.max_depth
       /\ t.max_depth = 0 => t.out = <<>>
       /\ t.max_depth > 0 =>
             \A k \in DOMAIN t.out : t.out[k].to_anchor \in Within(t.max_depth - 1)

(* The chain a -> b -> c seeded at c with max_depth = 1: only b -> c. *)
C11_Witness ==
    LET t == last.lineage
    IN /\ t.pc = "done"
       /\ t.seeds = <<"c">>
       /\ t.max_depth = 1
       /\ \E r \in Rows(edges) : r.from_anchor = "a" /\ r.to_anchor = "b"
       /\ Len(t.out) = 1
       /\ t.out[1].from_anchor = "b" /\ t.out[1].to_anchor = "c"

(* C12: retrieve_lineage terminates on every edge set, cycles and           *)
(* self-loops included: no anchor is expanded twice and the loop runs at    *)
(* most once per seed and per stored edge.                                  *)
C12_EachAnchorExpandedOnce ==
    LET t == last.lineage
    IN /\ \A j, k \in DOMAIN t.expanded :
             t.expanded[j].anchor = t.expanded[k].anchor => j = k
       /\ t.iterations <= Len(t.seeds) + Len(edges)

(* A finished traversal of a graph with the cycle a -> b -> c -> a and the  *)
(* self-loop on b, in which every anchor of the cycle was expanded.         *)
C12_Witness ==
    LET t == last.lineage
    IN /\ t.pc = "done"
       /\ \E r \in Rows(edges) : r.from_anchor = "b" /\ r.to_anchor = "b"
       /\ \E r \in Rows(edges) : r.from_anchor = "c" /\ r.to_anchor = "a"
       /\ t.seeds = <<"c">>
       /\ \E k \in DOMAIN t.out : t.out[k].from_anchor = "c" /\ t.out[k].to_anchor = "a"
       /\ \E k \in DOMAIN t.out : t.out[k].from_anchor = t.out[k].to_anchor

----------------------------------------------------------------------------
(* Out-of-range similarity.                                                 *)

(* A typed code.edit event whose similarity is outside [0,1]. *)
SimilarityOutOfRange(e) ==
    /\ e.data = "CodeEdit"
    /\ e.similarity.some
    /\ (e.similarity.v < 0 \/ e.similarity.v > 100)

(* C13 as stated: ingest_tape_events of an event list that holds a         *)
(* code.edit whose similarity is outside [0,1] fails and leaves the tables  *)
(* as they were.                                                            *)
C13_OutOfRangeSimilarityFails ==
    [][(/\ last'.cmd = "ingest_tape_events"
        /\ \E i \in DOMAIN last'.events : SimilarityOutOfRange(last'.events[i].event))
       => (~last'.ok /\ TablesUnchanged)]_vars

(* The similarity is the edge's confidence: both hashes present and         *)
(* different.                                                               *)
SimilarityIsConfidence(e) ==
    /\ SimilarityOutOfRange(e)
    /\ e.before_hash.some
    /\ e.after_hash.some
    /\ e.before_hash.v # e.after_hash.v

(* C13 amended: ingest_tape_events of an event list that holds a code.edit  *)
(* with two different hashes and a similarity outside [0,1] fails, and the  *)
(* three tables hold the rows they held before the call.                    *)
C13_OutOfRangeConfidenceFails ==
    [][(/\ last'.cmd = "ingest_tape_events"
        /\ \E i \in DOMAIN last'.events : SimilarityIsConfidence(last'.events[i].event))
       => (~last'.ok /\ TablesUnchanged)]_vars

(* A call without storage fault that failed on the similarity after its     *)
(* earlier inserts had added rows.                                          *)
C13_Witness ==
    /\ last.cmd = "ingest_tape_events"
    /\ ~last.ok
    /\ last.io_fail = 0
    /\ \E i \in DOMAIN last.events : SimilarityIsConfidence(last.events[i].event)
    /\ \A i \in DOMAIN last.events :
          last.events[i].event.data = "CodeRead" => last.events[i].event.anchor_hashes = <<"a">>
    /\ FoldEvents(CurDb, last.tape_id, last.events, last.link_threshold, 0, 1).db # CurDb

----------------------------------------------------------------------------
(* index/mod.rs and query/explain.rs: the queries behind `explain`.         *)

(* The mutant of EvidenceBefore: rows come back in insertion order. *)
EvidenceBeforeUnordered(rows, j, i, tie) == j < i

(* ORDER BY timestamp ASC, tape_id ASC, event_offset ASC.  Rows equal on    *)
(* the three columns keep insertion order or its reverse (tie).             *)
EvidenceBefore(rows, j, i, tie) ==
    \/ rows[j].timestamp < rows[i].timestamp
    \/ /\ rows[j].timestamp = rows[i].timestamp
       /\ \/ rows[j].tape_id < rows[i].tape_id
          \/ /\ rows[j].tape_id = rows[i].tape_id
             /\ \/ rows[j].event_offset < rows[i].event_offset
                \/ /\ rows[j].event_offset = rows[i].event_offset
                   /\ IF tie = "rowid" THEN j < i ELSE j > i

(* ORDER BY event_offset ASC. *)
TombstoneBefore(rows, j, i, tie) ==
    \/ rows[j].event_offset < rows[i].event_offset
    \/ /\ rows[j].event_offset = rows[i].event_offset
       /\ IF tie = "rowid" THEN j < i ELSE j > i

evidence_for_anchor(db, anchor, tie) ==
    LET rows == SelectRows(db.evidence, LAMBDA x : x.anchor = anchor, 1)
        sorted == [k \in 1 .. Len(rows) |->
                     rows[CHOOSE i \in 1 .. Len(rows) :
                            Cardinality({ j \in 1 .. Len(rows) :
                                            EvidenceBefore(rows, j, i, tie) }) = k - 1]]
    IN [k \in 1 .. Len(sorted) |->
          EvidenceFragmentRef(sorted[k].tape_id, sorted[k].event_offset, sorted[k].kind,
                              sorted[k].file_path, sorted[k].timestamp)]

tombstones_for_anchor(db, anchor, tie) ==
    LET rows == SelectRows(db.tombstones, LAMBDA x : x.anchor = anchor, 1)
        sorted == [k \in 1 .. Len(rows) |->
                     rows[CHOOSE i \in 1 .. Len(rows) :
                            Cardinality({ j \in 1 .. Len(rows) :
                                            TombstoneBefore(rows, j, i, tie) }) = k - 1]]
    IN [k \in 1 .. Len(sorted) |->
          Tombstone(<<anchor>>, sorted[k].tape_id, sorted[k].event_offset,
                    sorted[k].file_path,
                    FileRange(sorted[k].range_start, sorted[k].range_end),
                    sorted[k].timestamp)]

RECURSIVE retrieve_direct(_, _, _, _)
retrieve_direct(db, anchors, tie, i) ==
    IF i > Len(anchors) THEN <<>>
    ELSE evidence_for_anchor(db, anchors[i], tie) \o retrieve_direct(db, anchors, tie, i + 1)

ExplainTraversal(min_confidence, max_fanout, max_edges, max_depth) ==
    [min_confidence |-> min_confidence, max_fanout |-> max_fanout,
     max_edges |-> max_edges, max_depth |-> max_depth]

(* The state of retrieve_lineage before its loop. *)
LineageStart(seeds, traversal, include_forensics, tie) ==
    [NoTraversal EXCEPT
       !.pc = "loop", !.seeds = seeds,
       !.queue = [k \in DOMAIN seeds |-> [anchor |-> seeds[k], depth |-> 0]],
       !.min_confidence = traversal.min_confidence,
       !.max_fanout = traversal.max_fanout, !.max_edges = traversal.max_edges,
       !.max_depth = traversal.max_depth,
       !.include_forensics = include_forensics, !.tie = tie]

(* The loop of retrieve_lineage run to its end. *)
RECURSIVE LineageLoop(_, _)
LineageLoop(db, t) ==
    IF t.pc # "loop" THEN t
    ELSE IF t.queue = <<>> THEN [t EXCEPT !.pc = "done"]
    ELSE LetIn(LineageIteration(db, t), LAMBDA u : LineageLoop(db, u))

retrieve_lineage(db, seeds, traversal, include_forensics, tie) ==
    LineageLoop(db, LineageStart(seeds, traversal, include_forensics, tie))

explain_by_anchor(db, anchors, traversal, include_forensics, tie) ==
    LET t == retrieve_lineage(db, anchors, traversal, include_forensics, tie)
    IN [direct |-> retrieve_direct(db, anchors, tie, 1),
        lineage |-> t,
        touched_anchors |-> TouchedAnchors(anchors, t.out, 1)]

(* The tombstones cmd_explain prints: those of every touched anchor when    *)
(* --include-deleted is given, none otherwise.                              *)
RECURSIVE ExplainTombstones(_, _, _, _)
ExplainTombstones(db, touched, tie, i) ==
    IF i > Len(touched) THEN <<>>
    ELSE tombstones_for_anchor(db, touched[i], tie)
         \o ExplainTombstones(db, touched, tie, i + 1)

cmd_explain(db, anchors, traversal, include_forensics, include_deleted, tie) ==
    LET result == explain_by_anchor(db, anchors, traversal, include_forensics, tie)
    IN [direct |-> result.direct, lineage |-> result.lineage,
        tombstones |-> IF include_deleted
                       THEN ExplainTombstones(db, result.touched_anchors, tie, 1)
                       ELSE <<>>]

----------------------------------------------------------------------------
(* The index queried between ingests: ingest_tape_events, outbound_edges,   *)
(* evidence_for_anchor and `explain --anchor`.  A query changes no table    *)
(* and is not counted in steps.                                             *)

QueryAnchors == {"a", "b", "span:a.rs:1-2", "span:b.rs:10-20"}

MinConfidences == {0, 99, 150}

OutboundEdges ==
    /\ last.cmd = "ingest_tape_events"
    /\ \E anchor \in QueryAnchors, min_confidence \in MinConfidences,
          include_forensics \in BOOLEAN, tie \in {"rowid", "reverse"} :
         last' = [Last("outbound_edges") EXCEPT
                    !.query = <<"outbound", anchor, min_confidence, include_forensics>>,
                    !.direct = outbound_edges_vec(CurDb, anchor, min_confidence,
                                                  include_forensics, tie)]
    /\ UNCHANGED <<evidence, edges, tombstones, files, tapes, cursor, steps>>

EvidenceForAnchor ==
    /\ last.cmd = "ingest_tape_events"
    /\ \E anchor \in QueryAnchors, tie \in {"rowid", "reverse"} :
         last' = [Last("evidence_for_anchor") EXCEPT
                    !.query = <<"evidence", anchor, 0, FALSE>>,
                    !.direct = evidence_for_anchor(CurDb, anchor, tie)]
    /\ UNCHANGED <<evidence, edges, tombstones, files, tapes, cursor, steps>>

CmdExplain ==
    /\ last.cmd = "ingest_tape_events"
    /\ \E anchor \in QueryAnchors, min_confidence \in MinConfidences,
          include_forensics \in BOOLEAN, include_deleted \in BOOLEAN,
          tie \in {"rowid", "reverse"} :
        \E res \in {cmd_explain(CurDb, <<anchor>>,
                                ExplainTraversal(min_confidence, MAX_FANOUT_DEFAULT,
                                                 MAX_EDGES_DEFAULT, MAX_DEPTH_DEFAULT),
                                include_forensics, include_deleted, tie)} :
         last' = [Last("explain") EXCEPT
                    !.query = <<"explain", anchor, min_confidence, include_forensics>>,
                    !.include_deleted = include_deleted,
                    !.lineage = res.lineage, !.direct = res.direct,
                    !.tombstones = res.tombstones]
    /\ UNCHANGED <<evidence, edges, tombstones, files, tapes, cursor, steps>>

NextQuery == IngestTapeEvents \/ OutboundEdges \/ EvidenceForAnchor \/ CmdExplain

SpecQuery == Init /\ [][NextQuery]_vars

----------------------------------------------------------------------------
(* Properties of span links and of deletions.                               *)

(* The text span:<file>:<start>-<end>. *)
SpanAnchorText(file, range) ==
    "span:" \o file \o ":" \o ToString(range.start) \o "-" \o ToString(range.end)

(* The stored edge rows between the two span anchors of a span.link event. *)
SpanLinkRows(table, e) ==
    { k \in DOMAIN table :
        /\ table[k].from_anchor = SpanAnchorText(e.from_file, e.from_range)
        /\ table[k].to_anchor = SpanAnchorText(e.to_file, e.to_range) }

(* An edge a query returned for the stored row r. *)
ReturnedFor(returned, r) ==
    \E k \in DOMAIN returned :
        /\ returned[k].from_anchor = r.from_anchor
        /\ returned[k].to_anchor = r.to_anchor
        /\ returned[k].confidence = r.confidence
        /\ returned[k].agent_link = r.agent_link
        /\ returned[k].location_delta = r.location_delta
        /\ returned[k].cardinality = r.cardinality

(* C14: after a successful ingest of a span.link event the index holds      *)
(* exactly one edge from span:<from_file>:<start>-<end> to                  *)
(* span:<to_file>:<start>-<end>, with confidence 1.0, location_delta Moved, *)
(* cardinality 1:1, agent_link true and the event's note; outbound_edges of *)
(* its from anchor and explain of its to anchor return it for every         *)
(* min_confidence when forensics is off.                                    *)
C14_SpanLinkEdge ==
    [][/\ (last'.cmd = "ingest_tape_events" /\ last'.ok) =>
            \A i \in DOMAIN last'.events :
               last'.events[i].event.data = "SpanLink" =>
                 LET e == last'.events[i].event
                     rows == SpanLinkRows(edges', e)
                 IN /\ Cardinality(rows) = 1
                    /\ \A k \in rows :
                         /\ edges'[k].confidence = 100
                         /\ edges'[k].location_delta = "moved"
                         /\ edges'[k].cardinality = "1:1"
                         /\ edges'[k].agent_link
                         /\ edges'[k].note = (IF e.note.some THEN e.note.v ELSE "")
       /\ (last'.cmd = "outbound_edges" /\ ~last'.query[4]) =>
            \A r \in Rows(edges) :
               (r.agent_link /\ r.from_anchor = last'.query[2])
                  => ReturnedFor(last'.direct, r)
       /\ (last'.cmd = "explain" /\ ~last'.query[4]) =>
            \A r \in Rows(edges) :
               (r.agent_link /\ r.to_anchor = last'.query[2])
                  => ReturnedFor(last'.lineage.out, r)]_vars

(* explain of the to anchor with min_confidence 1.5 and no forensics        *)
(* returned the span link, its note included.                               *)
C14_Witness ==
    /\ last.cmd = "explain"
    /\ last.query = <<"explain", "span:b.rs:10-20", 150, FALSE>>
    /\ Len(last.lineage.out) = 1
    /\ last.lineage.out[1].from_anchor = "span:a.rs:1-2"
    /\ last.lineage.out[1].agent_link
    /\ last.lineage.out[1].note = Some("extract")
    /\ Len(edges) > 1

(* A typed code.edit event with a before_hash and no after_hash. *)
IsDeletion(e) == e.data = "CodeEdit" /\ e.before_hash.some /\ ~e.after_hash.some

(* before_range ?? after_range ?? [0,0] *)
DeletionRange(e) ==
    IF e.before_range.some THEN e.before_range.v
    ELSE IF e.after_range.some THEN e.after_range.v
    ELSE [start |-> 0, end |-> 0]

(* The events that may add an edge from `from` to `to`. *)
EdgeEvent(e, from, to) ==
    \/ /\ e.data = "CodeEdit" /\ e.before_hash.some /\ e.after_hash.some
       /\ e.before_hash.v = from /\ e.after_hash.v = to
    \/ /\ e.data = "SpanLink"
       /\ SpanAnchorText(e.from_file, e.from_range) = from
       /\ SpanAnchorText(e.to_file, e.to_range) = to

(* C15: after a successful ingest, every code.edit event with a before_hash *)
(* and no after_hash has exactly one Edit evidence row and exactly one      *)
(* tombstone for before_hash, the tombstone's range being before_range if   *)
(* present, else after_range, else [0,0]; the edges added by the call all   *)
(* come from other events; explain of an anchor reports no tombstone        *)
(* without include_deleted and every tombstone of the anchor with it.       *)
C15_DeletionTombstone ==
    [][/\ (last'.cmd = "ingest_tape_events" /\ last'.ok) =>
            /\ \A i \in DOMAIN last'.events :
                 IsDeletion(last'.events[i].event) =>
                   LET e == last'.events[i].event
                       off == last'.events[i].offset
                   IN /\ Cardinality({ k \in DOMAIN evidence' :
                             /\ evidence'[k].anchor = e.before_hash.v
                             /\ evidence'[k].tape_id = last'.tape_id
                             /\ evidence'[k].event_offset = off }) = 1
                      /\ \A k \in DOMAIN evidence' :
                            (/\ evidence'[k].anchor = e.before_hash.v
                             /\ evidence'[k].tape_id = last'.tape_id
                             /\ evidence'[k].event_offset = off)
                               => evidence'[k].kind = "edit"
                      /\ Cardinality({ k \in DOMAIN tombstones' :
                             /\ tombstones'[k].anchor = e.before_hash.v
                             /\ tombstones'[k].tape_id = last'.tape_id
                             /\ tombstones'[k].event_offset = off }) = 1
                      /\ \A k \in DOMAIN tombstones' :
                            (/\ tombstones'[k].anchor = e.before_hash.v
                             /\ tombstones'[k].tape_id = last'.tape_id
                             /\ tombstones'[k].event_offset = off)
                               => /\ tombstones'[k].range_start = DeletionRange(e).start
                                  /\ tombstones'[k].range_end = DeletionRange(e).end
            /\ \A r \in Rows(edges') \ Rows(edges) :
                 \E i \in DOMAIN last'.events :
                    EdgeEvent(last'.events[i].event, r.from_anchor, r.to_anchor)
       /\ (last'.cmd = "explain" /\ ~last'.include_deleted) => last'.tombstones = <<>>
       /\ (last'.cmd = "explain" /\ last'.include_deleted) =>
            \A r \in Rows(tombstones) :
               r.anchor = last'.query[2] =>
                 \E k \in DOMAIN last'.tombstones :
                    /\ last'.tombstones[k].anchor_hashes = <<r.anchor>>
                    /\ last'.tombstones[k].tape_id = r.tape_id
                    /\ last'.tombstones[k].event_offset = r.event_offset
                    /\ last'.tombstones[k].range_at_deletion
                         = [start |-> r.range_start, end |-> r.range_end]]_vars

(* explain --include-deleted of anchor a reported the tombstone of an edit  *)
(* without ranges, at [0,0], while the index also holds a tombstone whose   *)
(* range came from after_range and one whose range came from before_range.  *)
C15_Witness ==
    /\ last.cmd = "explain"
    /\ last.include_deleted
    /\ last.query[2] = "a"
    /\ \E k \in DOMAIN last.tombstones :
          last.tombstones[k].range_at_deletion = [start |-> 0, end |-> 0]
    /\ \E r \in Rows(tombstones) : r.range_start = 7 /\ r.range_end = 9
    /\ \E r \in Rows(tombstones) : r.range_start = 10 /\ r.range_end = 12
    /\ edges = <<>>

----------------------------------------------------------------------------
(* Properties of evidence_for_anchor.                                       *)

(* Row x is not after row y in (timestamp, tape_id, event_offset) order. *)
KeyLeq(x, y) ==
    \/ x.timestamp < y.timestamp
    \/ /\ x.timestamp = y.timestamp
       /\ \/ x.tape_id < y.tape_id
          \/ x.tape_id = y.tape_id /\ x.event_offset <= y.event_offset

SortedByKey(returned) ==
    /\ \A j, k \in DOMAIN returned : j < k => KeyLeq(returned[j], returned[k])
    /\ Len(returned)
         = Cardinality({ k \in DOMAIN evidence : evidence[k].anchor = last'.query[2] })

(* The timestamps of the tape's events do not decrease along the tape. *)
MonotoneTape(t) ==
    LET events == parse_jsonl_events(Docs[t]).events
    IN \A i, j \in DOMAIN events :
          i < j => events[i].event.timestamp <= events[j].event.timestamp

(* C16 as stated: evidence_for_anchor returns the rows of the anchor sorted *)
(* by (timestamp, tape_id, event_offset), and two rows of one tape appear   *)
(* in ascending event_offset.                                               *)
C16_SortedAndEventOrder ==
    [][last'.cmd = "evidence_for_anchor" =>
         /\ SortedByKey(last'.direct)
         /\ \A j, k \in DOMAIN last'.direct :
               (j < k /\ last'.direct[j].tape_id = last'.direct[k].tape_id)
                  => last'.direct[j].event_offset <= last'.direct[k].event_offset]_vars

(* C16 amended: evidence_for_anchor returns all rows of the anchor sorted   *)
(* by (timestamp, tape_id, event_offset); two rows of one tape appear in    *)
(* ascending event_offset when that tape's timestamps do not decrease       *)
(* along its events.                                                        *)
C16_SortedEventOrderIfMonotone ==
    [][last'.cmd = "evidence_for_anchor" =>
         /\ SortedByKey(last'.direct)
         /\ \A j, k \in DOMAIN last'.direct :
               (/\ j < k
                /\ last'.direct[j].tape_id = last'.direct[k].tape_id
                /\ MonotoneTape(last'.direct[j].tape_id))
                  => last'.direct[j].event_offset <= last'.direct[k].event_offset]_vars

(* A query that returned three rows of two tapes, two of them of one tape   *)
(* with different timestamps, in an order that is not insertion order.      *)
C16_Witness ==
    /\ last.cmd = "evidence_for_anchor"
    /\ Len(last.direct) >= 3
    /\ \E j, k \in DOMAIN last.direct :
          /\ j < k
          /\ last.direct[j].tape_id = last.direct[k].tape_id
          /\ last.direct[j].timestamp < last.direct[k].timestamp
          /\ MonotoneTape(last.direct[j].tape_id)
    /\ \E j, k \in DOMAIN last.direct :
          /\ j < k
          /\ last.direct[j].tape_id > last.direct[k].tape_id

----------------------------------------------------------------------------
(* store/atomic.rs: atomic_write, one file-system call per step.  `files`   *)
(* is the target's directory: a name maps to its content or to "absent".    *)
(* Every call of the file system may fail.                                  *)

MaxWrites == 3

TEMP_PREFIX == ".engram.tmp."

TargetName == "cursor-state.json"

(* temp_path_in_parent: the counter makes the name of every call new. *)
temp_path_in_parent(counter) == TEMP_PREFIX \o TargetName \o "." \o ToString(counter)

DirNames == {TargetName} \cup { temp_path_in_parent(c) : c \in 1 .. MaxWrites + 1 }

InitAtomic ==
    /\ InitCommon
    /\ \E before \in {"absent", "old"} :
         files = [n \in DirNames |-> IF n = TargetName THEN before ELSE "absent"]

AtomicStep(pc) == last.cmd = "atomic_write" /\ last.atomic.pc = pc

SetPc(pc) == last' = [last EXCEPT !.atomic.pc = pc]

(* Lines 11-20: parent, create_dir_all, temp_path_in_parent and             *)
(* create_temp_file; an error of one of them is returned at once.           *)
AtomicWriteCall ==
    /\ steps < MaxWrites
    /\ last.atomic.pc \in {"idle", "returned"}
    /\ \E bytes \in {"v1", "v2"}, created \in BOOLEAN :
         LET tmp == temp_path_in_parent(steps + 1)
             call == [NoWrite EXCEPT !.bytes = bytes, !.before = files[TargetName],
                                     !.tmp = tmp]
         IN IF created
            THEN /\ files' = [files EXCEPT ![tmp] = ""]
                 /\ last' = [Last("atomic_write") EXCEPT
                               !.atomic = [call EXCEPT !.pc = "write_all"]]
            ELSE /\ files' = files
                 /\ last' = [Last("atomic_write") EXCEPT
                               !.ok = FALSE,
                               !.atomic = [call EXCEPT !.pc = "returned",
                                                       !.result = "err"]]
    /\ steps' = steps + 1
    /\ UNCHANGED <<evidence, edges, tombstones, tapes, cursor>>

(* tmp_file.write_all(bytes)?: all bytes, or an error after some of them. *)
WriteAll ==
    /\ AtomicStep("write_all")
    /\ \E written \in {"all", "part", "none"} :
         /\ files' = [files EXCEPT ![last.atomic.tmp] =
                         IF written = "all" THEN last.atomic.bytes
                         ELSE IF written = "part" THEN "partial" ELSE ""]
         /\ SetPc(IF written = "all" THEN "sync_all" ELSE "cleanup")
    /\ UNCHANGED <<evidence, edges, tombstones, tapes, cursor, steps>>

(* tmp_file.flush()?; tmp_file.sync_all()?; drop(tmp_file) *)
FlushSync ==
    /\ AtomicStep("sync_all")
    /\ \E synced \in BOOLEAN : SetPc(IF synced THEN "rename" ELSE "cleanup")
    /\ UNCHANGED <<evidence, edges, tombstones, files, tapes, cursor, steps>>

(* fs::rename(from, to): the temp file replaces the target. *)
Renamed(dir, from, to) == [dir EXCEPT ![to] = dir[from], ![from] = "absent"]

(* rename_overwrite, first rename; on its error, to.exists(). *)
Rename ==
    /\ AtomicStep("rename")
    /\ \E renamed \in BOOLEAN :
         IF renamed
         THEN /\ files' = Renamed(files, last.atomic.tmp, TargetName)
              /\ SetPc("sync_parent_dir")
         ELSE /\ files' = files
              /\ SetPc(IF files[TargetName] # "absent" THEN "remove_target"
                       ELSE "cleanup")
    /\ UNCHANGED <<evidence, edges, tombstones, tapes, cursor, steps>>

(* rename_overwrite: fs::remove_file(to)? *)
RemoveTarget ==
    /\ AtomicStep("remove_target")
    /\ \E removed \in BOOLEAN :
         IF removed
         THEN /\ files' = [files EXCEPT ![TargetName] = "absent"]
              /\ SetPc("rename_again")
         ELSE /\ files' = files
              /\ SetPc("cleanup")
    /\ UNCHANGED <<evidence, edges, tombstones, tapes, cursor, steps>>

(* rename_overwrite: the second fs::rename(from, to). *)
RenameAgain ==
    /\ AtomicStep("rename_again")
    /\ \E renamed \in BOOLEAN :
         IF renamed
         THEN /\ files' = Renamed(files, last.atomic.tmp, TargetName)
              /\ SetPc("sync_parent_dir")
         ELSE /\ files' = files
              /\ SetPc("cleanup")
    /\ UNCHANGED <<evidence, edges, tombstones, tapes, cursor, steps>>

(* sync_parent_dir(parent)?; Ok(()) *)
SyncParentDir ==
    /\ AtomicStep("sync_parent_dir")
    /\ \E synced \in BOOLEAN :
         IF synced
         THEN last' = [last EXCEPT !.atomic.pc = "returned", !.atomic.result = "ok"]
         ELSE SetPc("cleanup")
    /\ UNCHANGED <<evidence, edges, tombstones, files, tapes, cursor, steps>>

(* if write_result.is_err() { let _ = fs::remove_file(&tmp_path); }: the    *)
(* removal of the call's own temp file is taken to succeed; after a rename  *)
(* the name is already gone.                                                *)
Cleanup ==
    /\ AtomicStep("cleanup")
    /\ files' = [files EXCEPT ![last.atomic.tmp] = "absent"]
    /\ last' = [last EXCEPT !.ok = FALSE, !.atomic.pc = "returned",
                            !.atomic.result = "err"]
    /\ UNCHANGED <<evidence, edges, tombstones, tapes, cursor, steps>>

NextAtomic ==
    \/ AtomicWriteCall
    \/ WriteAll
    \/ FlushSync
    \/ Rename
    \/ RemoveTarget
    \/ RenameAgain
    \/ SyncParentDir
    \/ Cleanup

SpecAtomic == InitAtomic /\ [][NextAtomic]_vars

(* C17: when atomic_write has returned Ok the target holds exactly the      *)
(* given bytes, when it has returned Err the target holds the content it    *)
(* had before the call, and in both cases the directory holds no            *)
(* .engram.tmp.* file.                                                      *)
C17_AllOrNothing ==
    (last.cmd = "atomic_write" /\ last.atomic.pc = "returned") =>
       /\ last.atomic.result = "ok" => files[TargetName] = last.atomic.bytes
       /\ last.atomic.result = "err" => files[TargetName] = last.atomic.before
       /\ \A n \in DirNames \ {TargetName} : files[n] = "absent"

----------------------------------------------------------------------------
(* Tape files as later commands find them.                                  *)

(* C18: after every command, a tape file in the tape directory is absent or *)
(* holds its complete content; no command leaves or finds a file with only  *)
(* part of its content.                                                     *)
C18_NoPartialFile ==
    \A t \in TapeIds : tapes[t] \in {"absent", "complete"}

----------------------------------------------------------------------------
(* index/mod.rs: SqliteIndex::open and init_schema.  `files` holds the      *)
(* header of the index file: user_version, journal mode and the names of    *)
(* its tables; evidence, edges and tombstones hold the rows of the tables   *)
(* of those names.                                                          *)

MaxOpens == 2

SchemaTables == {"evidence", "edges", "tombstones"}

IndexFile(user_version, journal_mode, tables) ==
    [user_version |-> user_version, journal_mode |-> journal_mode, tables |-> tables]

(* Rows of tables written before schema v1: no UNIQUE, no CHECK, note may   *)
(* be NULL.                                                                 *)
LegacyEvidence == <<
    [anchor |-> "a", tape_id |-> 1, event_offset |-> 0, kind |-> "read",
     file_path |-> "src/lib.rs", timestamp |-> 1],
    [anchor |-> "a", tape_id |-> 1, event_offset |-> 0, kind |-> "read",
     file_path |-> "src/main.rs", timestamp |-> 1],
    [anchor |-> "b", tape_id |-> 1, event_offset |-> 1, kind |-> "edit",
     file_path |-> "src/lib.rs", timestamp |-> 2]
>>

LegacyEdge(to, confidence, note) ==
    [from_anchor |-> "a", to_anchor |-> to, confidence |-> confidence,
     location_delta |-> "same", cardinality |-> "1:1", agent_link |-> FALSE,
     note |-> note, stored_class |-> "lineage"]

LegacyEdges == <<
    LegacyEdge("b", 80, ""), LegacyEdge("b", 80, "NULL"), LegacyEdge("c", 150, "")
>>

LegacyTombstones == <<
    [anchor |-> "b", tape_id |-> 4, event_offset |-> 1, file_path |-> "src/lib.rs",
     range_start |-> 10, range_end |-> 12, timestamp |-> 2],
    [anchor |-> "b", tape_id |-> 4, event_offset |-> 1, file_path |-> "src/lib.rs",
     range_start |-> 0, range_end |-> 0, timestamp |-> 2]
>>

(* The rows of seq whose index is in chosen. *)
RECURSIVE PickRows(_, _, _)
PickRows(seq, chosen, i) ==
    IF i > Len(seq) THEN <<>>
    ELSE (IF i \in chosen THEN <<seq[i]>> ELSE <<>>) \o PickRows(seq, chosen, i + 1)

(* COALESCE(note, '') *)
CoalesceNote(r) == [r EXCEPT !.note = IF @ = "NULL" THEN "" ELSE @]

(* INSERT OR IGNORE INTO <table> SELECT ... FROM <table>_legacy, for the    *)
(* three tables.                                                            *)
RECURSIVE CopyLegacyRows(_, _, _)
CopyLegacyRows(new, legacy, i) ==
    IF i > Len(legacy.evidence) + Len(legacy.edges) + Len(legacy.tombstones) THEN new
    ELSE LET j == i - Len(legacy.evidence)
             k == j - Len(legacy.edges)
         IN CopyLegacyRows(
              IF i <= Len(legacy.evidence)
              THEN [new EXCEPT !.evidence = InsertOrIgnoreEvidence(@, legacy.evidence[i])]
              ELSE IF j <= Len(legacy.edges)
              THEN [new EXCEPT !.edges =
                       InsertOrIgnoreEdge(@, CoalesceNote(legacy.edges[j]))]
              ELSE [new EXCEPT !.tombstones =
                       InsertOrIgnoreTombstone(@, legacy.tombstones[k])],
              legacy, i + 1)

OpenResult(ok, file, db) == [ok |-> ok, file |-> file, db |-> db]

(* CREATE TABLE IF NOT EXISTS for the three tables. *)
create_schema_v1(file) == [file EXCEPT !.tables = @ \cup SchemaTables]

(* The mutant of migrate_legacy_schema_to_v1: the legacy tables are dropped *)
(* before their rows are copied.                                            *)
migrate_legacy_schema_drop_first(file, db) ==
    IF ~(SchemaTables \subseteq file.tables) THEN OpenResult(FALSE, file, db)
    ELSE OpenResult(TRUE, [create_schema_v1(file) EXCEPT !.user_version = 1], EmptyDb)

(* The renames fail when a legacy table is missing; the copy runs after the *)
(* new tables exist; the legacy tables are dropped and the version is set.  *)
migrate_legacy_schema_to_v1(file, db) ==
    IF ~(SchemaTables \subseteq file.tables) THEN OpenResult(FALSE, file, db)
    ELSE OpenResult(TRUE, [create_schema_v1(file) EXCEPT !.user_version = 1],
                    CopyLegacyRows(EmptyDb, db, 1))

(* The mutant of init_schema: every version above 0 is opened as version 1. *)
init_schema_any_version(file, db) ==
    LET wal == [file EXCEPT !.journal_mode = "wal"]
    IN IF wal.user_version = 0 /\ "evidence" \in wal.tables
         THEN migrate_legacy_schema_to_v1(wal, db)
       ELSE IF wal.user_version = 0
         THEN OpenResult(TRUE, [create_schema_v1(wal) EXCEPT !.user_version = 1], db)
       ELSE OpenResult(TRUE, create_schema_v1(wal), db)

(* init_schema: the PRAGMAs run before user_version is read. *)
init_schema(file, db) ==
    LET wal == [file EXCEPT !.journal_mode = "wal"]
    IN IF wal.user_version = 0 /\ "evidence" \in wal.tables
         THEN migrate_legacy_schema_to_v1(wal, db)
       ELSE IF wal.user_version = 0
         THEN OpenResult(TRUE, [create_schema_v1(wal) EXCEPT !.user_version = 1], db)
       ELSE IF wal.user_version = 1
         THEN OpenResult(TRUE, create_schema_v1(wal), db)
       ELSE OpenResult(FALSE, wal, db)

(* The index files an open may find: a new file, a file with the three      *)
(* legacy tables, a file of schema v1, a file of a later schema.            *)
InitSchema ==
    /\ tapes = [t \in TapeIds |-> "absent"]
    /\ cursor = EmptyState
    /\ last = Last("init")
    /\ steps = 0
    /\ \E kind \in {"new", "legacy", "v1", "later"},
          journal_mode \in {"delete", "wal"},
          ev \in SUBSET DOMAIN LegacyEvidence,
          ed \in SUBSET DOMAIN LegacyEdges,
          tb \in SUBSET DOMAIN LegacyTombstones :
        LET legacy == Db(PickRows(LegacyEvidence, ev, 1), PickRows(LegacyEdges, ed, 1),
                         PickRows(LegacyTombstones, tb, 1))
            v1 == CopyLegacyRows(EmptyDb, legacy, 1)
            db == IF kind = "new" THEN EmptyDb ELSE IF kind = "legacy" THEN legacy ELSE v1
        IN /\ files = [index |->
                         IndexFile(IF kind = "v1" THEN 1 ELSE IF kind = "later" THEN 2 ELSE 0,
                                   IF kind = "v1" THEN "wal" ELSE journal_mode,
                                   IF kind = "new" THEN {} ELSE SchemaTables)]
           /\ evidence = db.evidence
           /\ edges = db.edges
           /\ tombstones = db.tombstones

(* SqliteIndex::open *)
OpenIndex ==
    /\ steps < MaxOpens
    /\ \E res \in {init_schema(files.index, CurDb)} :
         /\ files' = [index |-> res.file]
         /\ SetDb(res.db)
         /\ last' = [Last("open") EXCEPT
                       !.ok = res.ok,
                       !.query = <<"open", "", files.index.user_version,
                                   "evidence" \in files.index.tables>>]
    /\ steps' = steps + 1
    /\ UNCHANGED <<tapes, cursor>>

NextSchema == OpenIndex

SpecSchema == InitSchema /\ [][NextSchema]_vars

(* C19 as stated: open succeeds and ends with version 1 when the stored     *)
(* version is 0 or 1, fails and leaves the index file and its rows as they  *)
(* were when the version is above 1, and changes no row of a version-1      *)
(* index.                                                                   *)
C19_OpenByVersion ==
    [][last'.cmd = "open" =>
         /\ files.index.user_version \in {0, 1} =>
               (last'.ok /\ files'.index.user_version = 1)
         /\ files.index.user_version > 1 =>
               (~last'.ok /\ files' = files /\ TablesUnchanged)
         /\ files.index.user_version = 1 => TablesUnchanged]_vars

(* C19 amended: as above, except that a failed open of a later version      *)
(* leaves user_version, the tables and the rows as they were (the journal   *)
(* mode has been set to WAL before the version was read).                   *)
C19_OpenByVersionKeepsContent ==
    [][last'.cmd = "open" =>
         /\ files.index.user_version \in {0, 1} =>
               (/\ last'.ok
                /\ files'.index.user_version = 1
                /\ files'.index.tables = SchemaTables)
         /\ files.index.user_version > 1 =>
               (/\ ~last'.ok
                /\ files'.index.user_version = files.index.user_version
                /\ files'.index.tables = files.index.tables
                /\ TablesUnchanged)
         /\ files.index.user_version = 1 => TablesUnchanged]_vars

(* A second open of an index whose first open had ended with version 1,     *)
(* with rows in the three tables.                                           *)
C19_Witness ==
    /\ last.cmd = "open"
    /\ last.ok
    /\ steps = 2
    /\ files.index.user_version = 1
    /\ Len(edges) = 1
    /\ Len(evidence) = 2
    /\ Len(tombstones) = 1

----------------------------------------------------------------------------
(* anchor/winnow.rs: winnowed_features over token sequences.  A token of a  *)
(* text is 0 or 1, a token of a comment line is 2 (`/`) or 3; the hash of a k-gram is a function of its tokens, either           *)
(* one-to-one ("perm") or with collisions ("fold"), whose order is not the  *)
(* order of the k-grams.                                                    *)

DEFAULT_K_GRAM == 5

DEFAULT_WINDOW == 4

(* Longest token sequence T. *)
MaxTokens == 10

Tokens == {0, 1}

(* tokens[start..start + k].join("\x1f"): the k-gram as a number. *)
RECURSIVE KGram(_, _, _)
KGram(tokens, start, k) ==
    IF k = 0 THEN 0 ELSE 4 * KGram(tokens, start, k - 1) + tokens[start + k - 1]

hash_str(hash, kgram) ==
    LET mixed == (kgram * 13 + 7) % 1024
    IN IF hash = "perm" THEN mixed ELSE mixed % 11

kgram_hashes(hash, tokens, k) ==
    IF Len(tokens) < k THEN <<>>
    ELSE [start \in 1 .. Len(tokens) - k + 1 |-> hash_str(hash, KGram(tokens, start, k))]

(* The first occurrences of the values of seq, in order. *)
RECURSIVE Uniq(_, _, _)
Uniq(seq, out, i) ==
    IF i > Len(seq) THEN out
    ELSE Uniq(seq,
              IF \E j \in DOMAIN out : out[j] = seq[i] THEN out ELSE Append(out, seq[i]),
              i + 1)

(* The mutant of ShortFeatures: only the first k-gram is kept. *)
ShortFeaturesFirstOnly(kgrams) == <<kgrams[1]>>

(* kgrams.len() <= window: the k-grams themselves, each once. *)
ShortFeatures(kgrams) == Uniq(kgrams, <<>>, 1)

(* The mutant of WindowMin: windows at even positions select their first   *)
(* k-gram.                                                                  *)
WindowMinByPosition(kgrams, start, window) ==
    IF start % 2 = 0 THEN kgrams[start]
    ELSE LET pos == CHOOSE p \in start .. start + window - 1 :
                      /\ \A q \in start .. start + window - 1 : kgrams[p] <= kgrams[q]
                      /\ \A q \in p + 1 .. start + window - 1 : kgrams[q] > kgrams[p]
         IN kgrams[pos]

(* The minimum of the window that starts at start; of equal minima the      *)
(* rightmost (`<=` in the scan).                                            *)
WindowMin(kgrams, start, window) ==
    LET pos == CHOOSE p \in start .. start + window - 1 :
                  /\ \A q \in start .. start + window - 1 : kgrams[p] <= kgrams[q]
                  /\ \A q \in p + 1 .. start + window - 1 : kgrams[q] > kgrams[p]
    IN kgrams[pos]

winnowed_features(hash, tokens, k, window) ==
    IF tokens = <<>> \/ k = 0 \/ window = 0 THEN <<>>
    ELSE LET kgrams == kgram_hashes(hash, tokens, k)
         IN IF kgrams = <<>> THEN <<>>
            ELSE IF Len(kgrams) <= window THEN ShortFeatures(kgrams)
            ELSE Uniq([start \in 1 .. Len(kgrams) - window + 1 |->
                          WindowMin(kgrams, start, window)], <<>>, 1)

(* The token sequences of a length. *)
TokenSeqs(n) == [1 .. n -> Tokens]

InitWinnow ==
    /\ InitCommon
    /\ files = [p \in Paths |-> "c1"]

(* fingerprint(T) and fingerprint(S) for a contiguous sub-sequence S of T. *)
Fingerprint ==
    /\ last.cmd = "init"
    /\ \E n \in DEFAULT_K_GRAM .. MaxTokens, hash \in {"perm", "fold"} :
        \E tokens \in TokenSeqs(n) :
         \E start \in 1 .. n :
          \E len \in {DEFAULT_K_GRAM, DEFAULT_K_GRAM + DEFAULT_WINDOW - 2}
                      \cup (DEFAULT_K_GRAM + DEFAULT_WINDOW - 1 .. n) :
            /\ start + len - 1 <= n
            /\ last' = [Last("fingerprint") EXCEPT
                          !.winnow = [tokens |-> tokens, hash |-> hash,
                                      start |-> start, len |-> len,
                                      sub |-> winnowed_features(hash,
                                                 SubSeq(tokens, start, start + len - 1),
                                                 DEFAULT_K_GRAM, DEFAULT_WINDOW),
                                      whole |-> winnowed_features(hash, tokens,
                                                 DEFAULT_K_GRAM, DEFAULT_WINDOW)]]
    /\ UNCHANGED <<evidence, edges, tombstones, files, tapes, cursor, steps>>

(* fingerprint_text: the features, or the fallback hash of the text when    *)
(* there is none.                                                           *)
fingerprint_text(hash, tokens) ==
    LET features == winnowed_features(hash, tokens, DEFAULT_K_GRAM, DEFAULT_WINDOW)
    IN IF features = <<>> THEN [kind |-> "fallback", features |-> <<-1>>]
       ELSE [kind |-> "winnow", features |-> features]

(* fingerprint_similarity: Jaccard of the two parsed feature sets as the    *)
(* pair of its numerator and denominator, None when a set is empty.         *)
fingerprint_similarity(left, right) ==
    LET l == Rows(left.features)
        r == Rows(right.features)
    IN IF l = {} \/ r = {} THEN [some |-> FALSE, num |-> 0, den |-> 1]
       ELSE [some |-> TRUE, num |-> Cardinality(l \cap r), den |-> Cardinality(l \cup r)]

(* The tokens of a comment line: `//` and `// x`. *)
CommentLines == {<<2, 2>>, <<2, 2, 3>>}

(* The tokens of the text with the comment line put in after the line that  *)
(* ends with token at.                                                      *)
InsertLine(tokens, at, comment) ==
    SubSeq(tokens, 1, at) \o comment \o SubSeq(tokens, at + 1, Len(tokens))

(* The fingerprints of a text and of the text with one comment line         *)
(* inserted between two of its lines; sub holds the features of the edited  *)
(* text, start the number of tokens before the comment.                     *)
InsertComment ==
    /\ last.cmd = "init"
    /\ \E n \in DEFAULT_K_GRAM + DEFAULT_WINDOW - 2 .. MaxTokens, hash \in {"perm", "fold"} :
        \E tokens \in TokenSeqs(n), comment \in CommentLines :
         \E at \in 1 .. n - 1 :
            last' = [Last("insert_comment") EXCEPT
                       !.winnow = [tokens |-> tokens, hash |-> hash,
                                   start |-> at, len |-> Len(comment),
                                   sub |-> fingerprint_text(hash,
                                              InsertLine(tokens, at, comment)).features,
                                   whole |-> fingerprint_text(hash, tokens).features]]
    /\ UNCHANGED <<evidence, edges, tombstones, files, tapes, cursor, steps>>

NextWinnow == Fingerprint \/ InsertComment

SpecWinnow == InitWinnow /\ [][NextWinnow]_vars

(* C20: for a token sequence T and a contiguous sub-sequence S of T with at *)
(* least k + w - 1 tokens (k = 5, w = 4), the features of S and the         *)
(* features of T have a hash in common.                                     *)
C20_SharedFeature ==
    (last.cmd = "fingerprint"
        /\ last.winnow.len >= DEFAULT_K_GRAM + DEFAULT_WINDOW - 1) =>
       Rows(last.winnow.sub) \cap Rows(last.winnow.whole) # {}

(* S has more k-grams than a window and is a proper part of T, T's features *)
(* hold a hash that S's do not, and a shorter part of the same T shares     *)
(* nothing with it.                                                         *)
C20_Witness ==
    /\ last.cmd = "fingerprint"
    /\ last.winnow.len = DEFAULT_K_GRAM + DEFAULT_WINDOW
    /\ Len(last.winnow.tokens) = MaxTokens
    /\ Rows(last.winnow.whole) \ Rows(last.winnow.sub) # {}
    /\ Len(last.winnow.sub) >= 2
    /\ \E start \in 1 .. MaxTokens - DEFAULT_K_GRAM + 1 :
          Rows(winnowed_features(last.winnow.hash,
                                 SubSeq(last.winnow.tokens, start,
                                        start + DEFAULT_K_GRAM - 1),
                                 DEFAULT_K_GRAM, DEFAULT_WINDOW))
            \cap Rows(last.winnow.whole) = {}

(* The similarity of the two fingerprints of the last call. *)
LastSimilarity ==
    fingerprint_similarity([features |-> last.winnow.whole],
                           [features |-> last.winnow.sub])

(* C21 as stated: for a text of at least k + w - 1 tokens, the fingerprint  *)
(* of the text with one comment line inserted between two of its lines has  *)
(* a similarity above 0 with the fingerprint of the text.                   *)
C21_SimilarAfterComment ==
    (last.cmd = "insert_comment"
        /\ Len(last.winnow.tokens) >= DEFAULT_K_GRAM + DEFAULT_WINDOW - 1) =>
       (LastSimilarity.some /\ LastSimilarity.num > 0)

(* C21 amended: the similarity is above 0 when at least k + w - 1 tokens of *)
(* the text lie together before the inserted line or after it.              *)
C21_SimilarWhenSideIsLong ==
    (last.cmd = "insert_comment"
        /\ (\/ last.winnow.start >= DEFAULT_K_GRAM + DEFAULT_WINDOW - 1
            \/ Len(last.winnow.tokens) - last.winnow.start
                  >= DEFAULT_K_GRAM + DEFAULT_WINDOW - 1)) =>
       (LastSimilarity.some /\ LastSimilarity.num > 0)

(* A comment of three tokens inserted before the last eight tokens of a     *)
(* text: the two fingerprints differ and share a hash.                      *)
C21_Witness ==
    /\ last.cmd = "insert_comment"
    /\ last.winnow.len = 3
    /\ Len(last.winnow.tokens) - last.winnow.start = DEFAULT_K_GRAM + DEFAULT_WINDOW - 1
    /\ Rows(last.winnow.sub) # Rows(last.winnow.whole)
    /\ LastSimilarity.num > 0
    /\ LastSimilarity.num < LastSimilarity.den

----------------------------------------------------------------------------
(* Repair of a half-present tape by record and ingest.                      *)

(* The tapes the command of this step has handled to the end: the tape of a *)
(* successful record, the tapes of the candidates an ingest has imported or *)
(* found indexed.                                                           *)
HandledTapes ==
    IF last'.cmd = "record" /\ last'.ok THEN {last'.tape_id}
    ELSE IF last'.cmd = "ingest"
      THEN { TapeOf(Candidates[i]) : i \in { j \in DOMAIN Candidates :
                 last'.outcome[StateKey(Candidates[j])]
                    \in {"imported", "skipped_existing_tape"} } }
    ELSE {}

(* The file of tape t is left as it is when it exists and written whole     *)
(* when it is missing.                                                      *)
FileRepaired(t) ==
    /\ tapes[t] # "absent" => tapes'[t] = tapes[t]
    /\ tapes[t] = "absent" => tapes'[t] = "complete"

----------------------------------------------------------------------------
(* Rows are appended and never mutated.                                     *)

(* The rows of table s are the first rows of table t, unchanged and in the  *)
(* same rowid order.                                                        *)
IsPrefix(s, t) == Len(s) <= Len(t) /\ SubSeq(t, 1, Len(s)) = s

(* No two rows of a table agree on the key. *)
UniqueBy(table, Key(_)) ==
    \A i, j \in DOMAIN table : Key(table[i]) = Key(table[j]) => i = j

RowItself(r) == r

(* C23: no insert and no ingest_tape_events, successful or not, removes or  *)
(* changes a row: every table keeps its rows as they were and only gains    *)
(* rows after them, and a row whose uniqueness key is already held by a row *)
(* is not stored, so the table never holds two rows with one key.           *)
C23_RowsOnlyAppended ==
    [][/\ IsPrefix(evidence, evidence')
       /\ IsPrefix(edges, edges')
       /\ IsPrefix(tombstones, tombstones')
       /\ UniqueBy(evidence', EvidenceKey)
       /\ UniqueBy(edges', RowItself)
       /\ UniqueBy(tombstones', TombstoneKey)]_vars

(* A successful ingest of tape 4 whose tombstone (range 10..12) met a row   *)
(* with the same key and another range: the row is as it was and the table  *)
(* has no second row.                                                       *)
C23_Witness ==
    /\ last.cmd = "ingest_tape_events"
    /\ last.ok
    /\ last.tape_id = 4
    /\ tombstones = <<[anchor |-> "b", tape_id |-> 4, event_offset |-> 1,
                       file_path |-> "src/lib.rs", range_start |-> 20,
                       range_end |-> 22, timestamp |-> 2]>>

----------------------------------------------------------------------------
(* The limits max_edges and max_fanout of retrieve_lineage.                 *)

(* The positions of the returned edges that lead into anchor. *)
ReturnedInto(t, anchor) == { k \in DOMAIN t.out : t.out[k].to_anchor = anchor }

(* C24: retrieve_lineage returns at most max_edges edges (none when         *)
(* max_edges = 0); of the edges into one expanded anchor it returns at most *)
(* max_fanout, each a visible inbound edge of the anchor, each returned     *)
(* once, and no visible inbound edge left out has a higher confidence than  *)
(* a returned one.                                                          *)
C24_EdgeAndFanoutLimits ==
    LET t == last.lineage
    IN /\ Len(t.out) <= t.max_edges
       /\ t.max_edges = 0 => t.out = <<>>
       /\ \A j, k \in DOMAIN t.out : t.out[j] = t.out[k] => j = k
       /\ \A k \in DOMAIN t.out :
             \E x \in DOMAIN t.expanded : t.expanded[x].anchor = t.out[k].to_anchor
       /\ \A x \in DOMAIN t.expanded :
             LET visible == inbound_edges(CurDb, t.expanded[x].anchor,
                                          t.min_confidence, t.include_forensics)
                 into == ReturnedInto(t, t.expanded[x].anchor)
             IN /\ Cardinality(into) <= t.max_fanout
                /\ \A k \in into :
                      /\ t.out[k] \in visible
                      /\ \A e \in visible :
                            e.confidence > t.out[k].confidence =>
                               \E m \in into : t.out[m] = e

(* A finished traversal from c with max_fanout = 1 and max_edges = 2 that   *)
(* returned two edges: of the visible edges into c, one of confidence 0.9   *)
(* was followed and the one of confidence 0.4 was not.                      *)
C24_Witness ==
    LET t == last.lineage
    IN /\ t.pc = "done"
       /\ t.seeds = <<"c">>
       /\ t.max_fanout = 1
       /\ t.max_edges = 2
       /\ Len(t.out) = 2
       /\ t.out[1].to_anchor = "c" /\ t.out[1].confidence = 90
       /\ \E e \in inbound_edges(CurDb, "c", t.min_confidence, t.include_forensics) :
             e.confidence = 40
       /\ Cardinality(inbound_edges(CurDb, t.out[2].to_anchor, t.min_confidence,
                                    t.include_forensics)) > 1

----------------------------------------------------------------------------
(* touched_anchors of explain_by_anchor.                                    *)

(* The endpoints of the edges of a lineage, from_anchor before to_anchor, in *)
(* the order of the edges.                                                  *)
RECURSIVE Endpoints(_, _)
Endpoints(lineage, i) ==
    IF i > Len(lineage) THEN <<>>
    ELSE <<lineage[i].from_anchor, lineage[i].to_anchor>> \o Endpoints(lineage, i + 1)

(* C25: when explain_by_anchor returns, touched_anchors holds every seed    *)
(* and every from_anchor and to_anchor of the lineage exactly once, in the  *)
(* order of first appearance, the seeds first in seed order; this for every *)
(* seed list, one that names an anchor twice included.                      *)
C25_TouchedAnchorsOnce ==
    LET t == last.lineage
    IN t.pc = "done" =>
          t.touched = Uniq(t.seeds \o Endpoints(t.out, 1), <<>>, 1)

----------------------------------------------------------------------------
(* The rows of a code.edit event.                                           *)

(* A typed code.edit event that carries both hashes. *)
EditWithBothHashes(e) ==
    e.data = "CodeEdit" /\ e.before_hash.some /\ e.after_hash.some

(* The confidence the edge of such an event is to have, in hundredths. *)
ExpectedEditConfidence(e) ==
    IF e.before_hash.v = e.after_hash.v THEN 100
    ELSE IF e.similarity.some THEN e.similarity.v
    ELSE 0

(* The edges row of such an event under link_threshold. *)
ExpectedEditEdge(e, link_threshold) ==
    [from_anchor |-> e.before_hash.v, to_anchor |-> e.after_hash.v,
     confidence |-> ExpectedEditConfidence(e), location_delta |-> "same",
     cardinality |-> "1:1", agent_link |-> FALSE, note |-> "",
     stored_class |-> stored_class(FALSE, ExpectedEditConfidence(e), link_threshold)]

(* The Edit evidence row of a code.edit event for one of its hashes. *)
ExpectedEditEvidence(tape_id, item, anchor) ==
    [anchor |-> anchor, tape_id |-> tape_id, event_offset |-> item.offset,
     kind |-> "edit", file_path |-> item.event.file,
     timestamp |-> item.event.timestamp]

(* C26: after a successful ingest_tape_events, for every code.edit event of *)
(* the list with both hashes the edges table holds the row before_hash ->   *)
(* after_hash with location_delta Same, cardinality 1:1, agent_link false   *)
(* and confidence 1.0 for equal hashes (whatever the similarity), else the  *)
(* similarity when present, else 0.0; the call adds at most one edges row   *)
(* per such event and per span.link; and the evidence table holds an Edit   *)
(* row for each hash that is present.                                       *)
C26_EditEdgeAndEvidence ==
    [][(last'.cmd = "ingest_tape_events" /\ last'.ok) =>
         /\ \A i \in DOMAIN last'.events :
               LET item == last'.events[i]
                   e == item.event
               IN e.data = "CodeEdit" =>
                    /\ EditWithBothHashes(e) =>
                          ExpectedEditEdge(e, last'.link_threshold) \in Rows(edges')
                    /\ e.before_hash.some =>
                          ExpectedEditEvidence(last'.tape_id, item, e.before_hash.v)
                             \in Rows(evidence')
                    /\ e.after_hash.some =>
                          ExpectedEditEvidence(last'.tape_id, item, e.after_hash.v)
                             \in Rows(evidence')
         /\ Len(edges') <= Len(edges)
               + Cardinality({ i \in DOMAIN last'.events :
                                 \/ EditWithBothHashes(last'.events[i].event)
                                 \/ last'.events[i].event.data = "SpanLink" })]_vars

(* A successful ingest of tape 8, whose first edit has equal hashes and a   *)
(* similarity of 1.2: the edge b -> b is stored with confidence 1.0.        *)
C26_Witness ==
    /\ last.cmd = "ingest_tape_events"
    /\ last.ok
    /\ last.tape_id = 8
    /\ \E r \in Rows(edges) :
          r.from_anchor = "b" /\ r.to_anchor = "b" /\ r.confidence = 100

----------------------------------------------------------------------------
(* Confidence range of the edges table and of insert_edge.                  *)

(* C27: after every operation each row of edges has a confidence in [0,1],  *)
(* and an insert_edge whose confidence is outside [0,1] or whose            *)
(* from_anchor or to_anchor is empty returns an error and adds no row.      *)
C27_InsertEdgeRejectsOutOfRange ==
    [][/\ \A r \in Rows(edges') : 0 <= r.confidence /\ r.confidence <= 100
       /\ (/\ last'.cmd = "insert_edge"
           /\ \/ last'.query[1] = ""
              \/ last'.query[2] = ""
              \/ last'.query[3] < 0
              \/ last'.query[3] > 100)
          => (~last'.ok /\ edges' = edges)]_vars

----------------------------------------------------------------------------
(* tape/event.rs: the two parsers on one input.                             *)

(* Longest input, in lines. *)
MaxLines == 3

(* The lines of an input: blank, no RawEvent, complete events of every      *)
(* structured kind, events that lack a required field, and an event of a    *)
(* kind without structure.                                                  *)
InputLines == {
    BlankLine, MalformedLine, MetaLine, LinkLine,
    ReadLine(<<"a">>), EditLine(Some("a"), Some("b"), Some(80)),
    JsonLine([RawEvent EXCEPT !.t = 1, !.k = "code.read", !.file = Some("src/lib.rs"),
                              !.anchor_hashes = Some(<<"a">>)]),
    JsonLine([RawEvent EXCEPT !.t = 2, !.k = "code.edit",
                              !.before_hash = Some("a"), !.after_hash = Some("b")]),
    JsonLine([RawEvent EXCEPT !.t = 3, !.k = "span.link", !.from_file = Some("a.rs"),
                              !.from_range = Some(FileRange(1, 2)),
                              !.to_file = Some("b.rs")]),
    JsonLine([RawEvent EXCEPT !.t = 4, !.k = "tool.result"]) }

InputDocs == UNION { [1 .. n -> InputLines] : n \in 0 .. MaxLines }

InitParse ==
    /\ evidence = <<>>
    /\ edges = <<>>
    /\ tombstones = <<>>
    /\ tapes = [t \in TapeIds |-> "absent"]
    /\ cursor = EmptyState
    /\ files = [p \in Paths |-> "c1"]
    /\ steps = 0
    /\ \E doc \in InputDocs : last = [Last("init") EXCEPT !.parse.doc = doc]

ParseStrict ==
    /\ ~last.parse.strict_done
    /\ \E res \in {parse_jsonl_events(last.parse.doc)} :
         last' = [Last("parse_jsonl_events") EXCEPT
                    !.ok = res.ok,
                    !.parse = [last.parse EXCEPT !.strict_done = TRUE,
                                                 !.strict_ok = res.ok,
                                                 !.strict_events = res.events]]
    /\ UNCHANGED <<evidence, edges, tombstones, files, tapes, cursor, steps>>

ParseLossy ==
    /\ ~last.parse.lossy_done
    /\ \E res \in {parse_jsonl_events_lossy(last.parse.doc)} :
         last' = [Last("parse_jsonl_events_lossy") EXCEPT
                    !.parse = [last.parse EXCEPT !.lossy_done = TRUE,
                                                 !.lossy_events = res.events,
                                                 !.issues = res.issues]]
    /\ UNCHANGED <<evidence, edges, tombstones, files, tapes, cursor, steps>>

(* ingest_tape_events of the events the strict parser returned. *)
IngestParsed ==
    /\ last.parse.strict_done
    /\ last.parse.strict_ok
    /\ ~last.parse.ingested
    /\ \E res \in {ingest_tape_events(CurDb, 1, last.parse.strict_events,
                                      LINK_THRESHOLD_DEFAULT, 0)} :
         /\ SetDb(res.db)
         /\ last' = [Last("ingest_tape_events") EXCEPT
                       !.ok = res.ok, !.tape_id = 1,
                       !.events = last.parse.strict_events,
                       !.link_threshold = LINK_THRESHOLD_DEFAULT,
                       !.parse = [last.parse EXCEPT !.ingested = TRUE]]
    /\ UNCHANGED <<files, tapes, cursor, steps>>

NextParse == ParseStrict \/ ParseLossy \/ IngestParsed

SpecParse == InitParse /\ [][NextParse]_vars

(* The positions of the lines of doc that are not blank, in input order. *)
RECURSIVE NonBlank(_, _)
NonBlank(doc, i) ==
    IF i > Len(doc) THEN <<>>
    ELSE (IF doc[i].line = "blank" THEN <<>> ELSE <<i>>) \o NonBlank(doc, i + 1)

(* The raw event of a line names a structured kind and lacks one of the     *)
(* fields the kind requires.                                                *)
LacksRequiredField(raw) ==
    \/ raw.k = "code.read" /\ ~(raw.file.some /\ raw.range.some)
    \/ raw.k = "code.edit" /\ ~raw.file.some
    \/ raw.k = "span.link" /\ ~(raw.from_file.some /\ raw.from_range.some
                                /\ raw.to_file.some /\ raw.to_range.some)

(* C28: when parse_jsonl_events succeeds, its k-th event is the event of    *)
(* the k-th non-blank line and its offset is that line's 0-based index in   *)
(* the input, so the offsets are strictly increasing; a line whose          *)
(* structured kind lacks a required field gives Other(kind) at its offset;  *)
(* and the ingest of the events leaves in the index exactly the rows of the *)
(* events that are not Other.                                               *)
C28_OffsetsAreLineIndices ==
    LET ps == last.parse
        lines == NonBlank(ps.doc, 1)
        events == ps.strict_events
    IN (ps.strict_done /\ ps.strict_ok) =>
         /\ Len(events) = Len(lines)
         /\ \A k \in DOMAIN events :
               /\ events[k].offset = lines[k] - 1
               /\ events[k].event.timestamp = ps.doc[lines[k]].raw.t
               /\ events[k].event.kind = to_kind(ps.doc[lines[k]].raw.k)
               /\ LacksRequiredField(ps.doc[lines[k]].raw) =>
                     events[k].event.data = "Other"
         /\ \A j, k \in DOMAIN events : j < k => events[j].offset < events[k].offset
         /\ ps.ingested =>
               /\ last.ok
               /\ CurDb = ingest_tape_events(EmptyDb, 1,
                             SelectSeq(events, LAMBDA e : e.event.data # "Other"),
                             LINK_THRESHOLD_DEFAULT, 0).db
               /\ \A r \in Rows(evidence) \cup Rows(tombstones) :
                     \E k \in DOMAIN events :
                        events[k].offset = r.event_offset /\ events[k].event.data # "Other"

(* An input of a blank line, a code.read without range and a complete       *)
(* code.read, parsed and ingested: offsets 1 and 2, the first event Other,  *)
(* and one evidence row, at offset 2.                                       *)
C28_Witness ==
    LET ps == last.parse
    IN /\ ps.ingested
       /\ Len(ps.doc) = 3
       /\ ps.doc[1] = BlankLine
       /\ Len(ps.strict_events) = 2
       /\ ps.strict_events[1].offset = 1
       /\ ps.strict_events[1].event.data = "Other"
       /\ ps.strict_events[1].event.kind = "code.read"
       /\ ps.strict_events[2].event.data = "CodeRead"
       /\ Len(evidence) = 1
       /\ evidence[1].event_offset = 2

(* The positions of the malformed lines of doc, in input order. *)
RECURSIVE MalformedAt(_, _)
MalformedAt(doc, i) ==
    IF i > Len(doc) THEN <<>>
    ELSE (IF doc[i].line = "malformed" THEN <<i>> ELSE <<>>) \o MalformedAt(doc, i + 1)

(* The input without its malformed lines, each replaced by a blank line so  *)
(* that the other lines keep their index.                                   *)
WithoutMalformed(doc) ==
    [i \in DOMAIN doc |-> IF doc[i].line = "malformed" THEN BlankLine ELSE doc[i]]

(* C29: on one input, parse_jsonl_events fails and returns no event when a  *)
(* line is malformed; parse_jsonl_events_lossy returns the event of every   *)
(* well-formed line, at that line's offset, and one issue per malformed     *)
(* line, in input order, with the line's number (counted from 1); when no   *)
(* line is malformed both return the same events and there is no issue.     *)
C29_StrictAndLossy ==
    LET ps == last.parse
        bad == MalformedAt(ps.doc, 1)
    IN /\ ps.strict_done =>
             /\ ps.strict_ok <=> bad = <<>>
             /\ ~ps.strict_ok => ps.strict_events = <<>>
       /\ ps.lossy_done =>
             /\ ps.lossy_events = parse_jsonl_events(WithoutMalformed(ps.doc)).events
             /\ Len(ps.issues) = Len(bad)
             /\ \A k \in DOMAIN bad : ps.issues[k].line = bad[k]
       /\ (ps.strict_done /\ ps.lossy_done /\ bad = <<>>) =>
             /\ ps.strict_events = ps.lossy_events
             /\ ps.issues = <<>>

(* The input of the test: a meta line, a line that is no JSON, a            *)
(* tool.result line.  Strict parsing failed; lossy parsing gave two events, *)
(* at offsets 0 and 2, and one issue, for line 2.                           *)
C29_Witness ==
    LET ps == last.parse
    IN /\ ps.strict_done /\ ps.lossy_done
       /\ Len(ps.doc) = 3
       /\ ps.doc[1] = MetaLine
       /\ ps.doc[2] = MalformedLine
       /\ ~ps.strict_ok
       /\ Len(ps.lossy_events) = 2
       /\ ps.lossy_events[2].offset = 2
       /\ ps.lossy_events[2].event.kind = "tool.result"
       /\ Len(ps.issues) = 1
       /\ ps.issues[1].line = 2

----------------------------------------------------------------------------
(* The migration of the legacy tables.                                      *)

(* The open of this step found version 0 and the three legacy tables. *)
OpensLegacy ==
    /\ last'.cmd = "open"
    /\ files.index.user_version = 0
    /\ SchemaTables \subseteq files.index.tables

(* The edges row a legacy row becomes: NULL note stored as "". *)
MigratedEdge(r) == [r EXCEPT !.note = IF @ = "NULL" THEN "" ELSE @]

(* The open succeeded, the version is 1 and only the v1 tables are left. *)
MigrationDone ==
    /\ last'.ok
    /\ files'.index.user_version = 1
    /\ files'.index.tables = SchemaTables

(* Every legacy evidence and tombstone row is in its v1 table, or a legacy  *)
(* row with the same key that came before it is; and every v1 row is a      *)
(* legacy row.                                                              *)
KeyedRowsMigrated ==
    /\ \A i \in DOMAIN evidence :
          \/ evidence[i] \in Rows(evidence')
          \/ \E j \in 1 .. i - 1 :
                /\ EvidenceKey(evidence[j]) = EvidenceKey(evidence[i])
                /\ evidence[j] \in Rows(evidence')
    /\ \A i \in DOMAIN tombstones :
          \/ tombstones[i] \in Rows(tombstones')
          \/ \E j \in 1 .. i - 1 :
                /\ TombstoneKey(tombstones[j]) = TombstoneKey(tombstones[i])
                /\ tombstones[j] \in Rows(tombstones')
    /\ Rows(evidence') \subseteq Rows(evidence)
    /\ Rows(tombstones') \subseteq Rows(tombstones)
    /\ UniqueBy(evidence', EvidenceKey)
    /\ UniqueBy(tombstones', TombstoneKey)
    /\ UniqueBy(edges', RowItself)

----------------------------------------------------------------------------
(* tape/adapter.rs: run_conformance.  The adapter bodies are collaborators: *)
(* an adapter rejects its input or returns rows; a row is a JSON object of  *)
(* which the model keeps the kind, whether `t` is a string, the state of    *)
(* `source`, the coverage of a meta row and the fields its kind requires    *)
(* and the row lacks.                                                       *)

(* Longest adapter output, in lines. *)
MaxRows == 3

CoverageGrades(read, edit, tool) == [read |-> read, edit |-> edit, tool |-> tool]

NoCoverage == [some |-> FALSE, v |-> CoverageGrades("", "", "")]

(* descriptor_for(id).coverage *)
descriptor_coverage(id) ==
    IF id = "claude-code" THEN CoverageGrades("full", "full", "full")
    ELSE IF id = "openclaw" THEN CoverageGrades("partial", "partial", "partial")
    ELSE CoverageGrades("partial", "partial", "full")

AdapterIds == {"claude-code", "gemini-cli", "openclaw"}

ContractRow(k, t, source, coverage, lacks) ==
    [blank |-> FALSE, k |-> k, t |-> t, source |-> source, coverage |-> coverage,
     lacks |-> lacks]

BlankRow == [ContractRow("", FALSE, "", NoCoverage, <<>>) EXCEPT !.blank = TRUE]

MetaRow(grades) == ContractRow("meta", TRUE, "ok", [some |-> TRUE, v |-> grades], <<>>)

(* The rows of an adapter's output: blank, meta rows with the grades the    *)
(* adapters emit, rows that keep the contract and rows that break the       *)
(* envelope or the rule of their kind.                                      *)
OutputRows == {
    BlankRow,
    MetaRow(CoverageGrades("full", "full", "full")),
    MetaRow(CoverageGrades("none", "none", "none")),
    ContractRow("msg.in", TRUE, "ok", NoCoverage, <<>>),
    ContractRow("code.read", TRUE, "ok", NoCoverage, <<"range">>),
    ContractRow("custom", TRUE, "ok", NoCoverage, <<>>),
    ContractRow("tool.call", TRUE, "none", NoCoverage, <<"tool", "args">>),
    ContractRow("", FALSE, "no_harness", NoCoverage, <<>>) }

ConformanceIssue(line, detail) == [line |-> line, detail |-> detail]

(* validate_contract_row: the issues of one row, in the order the checks run. *)
validate_contract_row(line, row) ==
    LET envelope ==
          (IF row.t THEN <<>> ELSE <<ConformanceIssue(line, "missing string field t")>>)
          \o (IF row.source = "none"
                THEN <<ConformanceIssue(line, "missing object field source")>>
              ELSE IF row.source = "no_harness"
                THEN <<ConformanceIssue(line, "missing string field source.harness")>>
              ELSE <<>>)
    IN IF row.k = "" THEN Append(envelope, ConformanceIssue(line, "missing string field k"))
       ELSE IF row.k \notin EventKinds
         THEN Append(envelope, ConformanceIssue(line, "unknown event kind"))
       ELSE envelope \o [i \in DOMAIN row.lacks |->
                           ConformanceIssue(line, row.k \o " missing field " \o row.lacks[i])]

parse_meta_coverage(meta) == meta.coverage

(* The mutant of MetaCoverage: every meta row replaces the coverage. *)
MetaCoverageOfLast(actual_coverage, row) ==
    IF row.k = "meta" THEN parse_meta_coverage(row) ELSE actual_coverage

(* `if actual_coverage.is_none() && k == meta` *)
MetaCoverage(actual_coverage, row) ==
    IF ~actual_coverage.some /\ row.k = "meta" THEN parse_meta_coverage(row)
    ELSE actual_coverage

(* The loop of run_conformance over the lines of the adapter's output. *)
RECURSIVE ConformanceLoop(_, _, _)
ConformanceLoop(output, idx, acc) ==
    IF idx > Len(output) THEN acc
    ELSE IF output[idx].blank THEN ConformanceLoop(output, idx + 1, acc)
    ELSE ConformanceLoop(output, idx + 1,
           [event_count |-> acc.event_count + 1,
            actual_coverage |-> MetaCoverage(acc.actual_coverage, output[idx]),
            issues |-> acc.issues \o validate_contract_row(idx, output[idx])])

run_conformance(id, converted, output) ==
    IF ~converted THEN [NoReport EXCEPT !.done = TRUE]
    ELSE LET acc == ConformanceLoop(output, 1,
                       [event_count |-> 0, actual_coverage |-> NoCoverage,
                        issues |-> <<>>])
         IN [NoReport EXCEPT
               !.done = TRUE, !.ok = TRUE, !.event_count = acc.event_count,
               !.coverage = IF acc.actual_coverage.some THEN acc.actual_coverage.v
                            ELSE descriptor_coverage(id),
               !.issues = acc.issues]

InitConformance ==
    /\ evidence = <<>>
    /\ edges = <<>>
    /\ tombstones = <<>>
    /\ tapes = [t \in TapeIds |-> "absent"]
    /\ cursor = EmptyState
    /\ files = [p \in Paths |-> "c1"]
    /\ steps = 0
    /\ \E id \in AdapterIds, converted \in BOOLEAN :
        \E output \in IF converted
                      THEN UNION { [1 .. n -> OutputRows] : n \in 0 .. MaxRows }
                      ELSE {<<>>} :
          last = [Last("init") EXCEPT
                    !.conformance = [NoReport EXCEPT !.adapter = id,
                                                     !.converted = converted,
                                                     !.output = output]]

RunConformance ==
    /\ ~last.conformance.done
    /\ \E report \in {run_conformance(last.conformance.adapter,
                                      last.conformance.converted,
                                      last.conformance.output)} :
         last' = [Last("run_conformance") EXCEPT
                    !.ok = report.ok,
                    !.conformance = [report EXCEPT
                                       !.adapter = last.conformance.adapter,
                                       !.converted = last.conformance.converted,
                                       !.output = last.conformance.output]]
    /\ UNCHANGED <<evidence, edges, tombstones, files, tapes, cursor, steps>>

NextConformance == RunConformance

SpecConformance == InitConformance /\ [][NextConformance]_vars

(* The row keeps the envelope and the rule of its kind. *)
KeepsContract(row) ==
    /\ row.t
    /\ row.source = "ok"
    /\ row.k \in EventKinds
    /\ row.lacks = <<>>

----------------------------------------------------------------------------
(* query/explain.rs: pretty_tier, the tier under which explain --pretty      *)
(* prints an edge. Confidences are hundredths.                               *)

EDIT_TIER_MIN == 90
MOVE_TIER_MIN == 85

(* pretty_tier with the Related test ahead of the Edit and Move tests. *)
pretty_tier_related_first(confidence, moved, location_only) ==
    IF location_only THEN "ForensicsOnly"
    ELSE IF confidence >= MIN_CONFIDENCE_DEFAULT THEN "Related"
    ELSE IF confidence >= EDIT_TIER_MIN /\ ~moved THEN "Edit"
    ELSE IF confidence >= MOVE_TIER_MIN /\ moved THEN "Move"
    ELSE "Hidden"

pretty_tier(confidence, moved, location_only) ==
    IF location_only THEN "ForensicsOnly"
    ELSE IF confidence >= EDIT_TIER_MIN /\ ~moved THEN "Edit"
    ELSE IF confidence >= MOVE_TIER_MIN /\ moved THEN "Move"
    ELSE IF confidence >= MIN_CONFIDENCE_DEFAULT THEN "Related"
    ELSE "Hidden"

(* index/lineage.rs: SpanEdge::included_in_default_traversal. *)
included_in_default_traversal(edge, min_confidence) ==
    edge.agent_link \/ edge.confidence >= min_confidence

(* Every confidence an edge can hold, 0.00 to 1.00, with every value of the *)
(* two flags and of agent_link.                                              *)
InitTier ==
    /\ evidence = <<>>
    /\ edges = <<>>
    /\ tombstones = <<>>
    /\ tapes = [t \in TapeIds |-> "absent"]
    /\ cursor = EmptyState
    /\ files = [p \in Paths |-> "c1"]
    /\ steps = 0
    /\ \E confidence \in 0 .. 100, moved \in BOOLEAN, location_only \in BOOLEAN,
          agent_link \in BOOLEAN :
          last = [Last("init") EXCEPT
                    !.tier = [NoTier EXCEPT !.confidence = confidence,
                                            !.moved = moved,
                                            !.location_only = location_only,
                                            !.agent_link = agent_link]]

PrettyTier ==
    /\ ~last.tier.done
    /\ last' = [Last("pretty_tier") EXCEPT
                  !.tier = [last.tier EXCEPT
                              !.done = TRUE,
                              !.tier = pretty_tier(last.tier.confidence, last.tier.moved,
                                                   last.tier.location_only),
                              !.included = included_in_default_traversal(
                                               last.tier, MIN_CONFIDENCE_DEFAULT)]]
    /\ UNCHANGED <<evidence, edges, tombstones, files, tapes, cursor, steps>>

NextTier == PrettyTier

SpecTier == InitTier /\ [][NextTier]_vars

(* C32: pretty_tier is decided in this order: ForensicsOnly iff the edge is  *)
(* location-only; else Edit iff the confidence is at least 0.90 and the edge *)
(* is not moved; else Move iff the confidence is at least 0.85 and the edge  *)
(* is moved; else Related iff the confidence is at least 0.50; else Hidden.  *)
(* So an edge that is not location-only is Hidden exactly when its           *)
(* confidence is below MIN_CONFIDENCE_DEFAULT, and that is exactly when a    *)
(* non-agent edge is left out of the default traversal.                      *)
C32_TierOrder ==
    last.tier.done =>
      LET t == last.tier
          edit == t.confidence >= 90 /\ ~t.moved
          move == t.confidence >= 85 /\ t.moved
          related == t.confidence >= 50
      IN  /\ (t.tier = "ForensicsOnly") <=> t.location_only
          /\ ~t.location_only =>
                /\ (t.tier = "Edit") <=> edit
                /\ (t.tier = "Move") <=> (~edit /\ move)
                /\ (t.tier = "Related") <=> (~edit /\ ~move /\ related)
                /\ (t.tier = "Hidden") <=> (~edit /\ ~move /\ ~related)
                /\ (t.tier = "Hidden") <=> (t.confidence < MIN_CONFIDENCE_DEFAULT)
                /\ ~t.agent_link => ((t.tier = "Hidden") <=> ~t.included)

(* A moved edge of confidence 0.95 is a Move, not an Edit. *)
C32_Witness ==
    /\ last.tier.done
    /\ last.tier.confidence = 95
    /\ last.tier.moved
    /\ ~last.tier.location_only
    /\ last.tier.tier = "Move"

----------------------------------------------------------------------------
(* main.rs: the session assembly of cmd_explain.                            *)

MaxTapeLines == 4

TRANSCRIPT_WINDOW_RADIUS == 2

(* parse_jsonl_rows: one row per line that is not blank; its offset is the  *)
(* index of the line, counted from 0.                                        *)
parse_jsonl_rows(input) ==
    LET idx == SelectSeq([i \in 1 .. Len(input) |-> i],
                         LAMBDA i : input[i] # "blank")
    IN  [j \in 1 .. Len(idx) |-> [offset |-> idx[j] - 1, value |-> input[idx[j]]]]

(* event_window: None (the empty sequence) when no row has the offset, else *)
(* Some of the rows at the positions pos - radius ..= pos + radius that     *)
(* exist.  pos, start and end count from 0 as in the code.                  *)
event_window(rows, target_offset, radius) ==
    LET hits == {p \in 1 .. Len(rows) : rows[p].offset = target_offset}
    IN  IF hits = {} THEN <<>>
        ELSE LET pos == (CHOOSE p \in hits : \A q \in hits : p <= q) - 1
                 start == IF pos >= radius THEN pos - radius ELSE 0
                 end == IF Len(rows) - 1 <= pos + radius THEN Len(rows) - 1
                        ELSE pos + radius
             IN  << [touch_offset |-> target_offset,
                     events |-> [j \in 1 .. end - start + 1 |-> rows[start + j].offset]] >>

RECURSIVE SortedTouches(_, _)
(* tape_touches.sort_by_key(|t| t.event_offset) over the touches of one     *)
(* tape, which have distinct offsets.                                        *)
SortedTouches(offsets, out) ==
    IF offsets = {} THEN out
    ELSE LET least == CHOOSE o \in offsets : \A q \in offsets : o <= q
         IN  SortedTouches(offsets \ {least}, Append(out, least))

RECURSIVE Concat(_)
Concat(seqs) == IF seqs = <<>> THEN <<>> ELSE Head(seqs) \o Concat(Tail(seqs))

(* The body of the loop over by_tape for one tape whose file was read. *)
SessionOf(tape_id, tape_touches, content, timestamp) ==
    LET rows == parse_jsonl_rows(content)
    IN  [tape_id |-> tape_id,
         touch_count |-> Len(tape_touches),
         latest_touch_timestamp |-> timestamp,
         touches |-> tape_touches,
         windows |-> Concat([j \in 1 .. Len(tape_touches) |->
                               event_window(rows, tape_touches[j],
                                            TRANSCRIPT_WINDOW_RADIUS)])]

(* The comparator of sessions.sort_by: a goes before b. *)
SessionBefore(a, b) ==
    \/ a.touch_count > b.touch_count
    \/ /\ a.touch_count = b.touch_count
       /\ a.latest_touch_timestamp > b.latest_touch_timestamp

RECURSIVE InsertSession(_, _)
InsertSession(sorted, s) ==
    IF sorted = <<>> THEN << s >>
    ELSE IF SessionBefore(s, Head(sorted)) THEN << s >> \o sorted
    ELSE << Head(sorted) >> \o InsertSession(Tail(sorted), s)

RECURSIVE SortSessions(_, _)
(* The stable sort of the sessions. *)
SortSessions(sessions, out) ==
    IF sessions = <<>> THEN out
    ELSE SortSessions(Tail(sessions), InsertSession(out, Head(sessions)))

(* The offsets of the touches of a tape: the evidence rows of its events. *)
TouchOffsets(lines) == {i - 1 : i \in {j \in 1 .. Len(lines) : lines[j] = "touch"}}

RECURSIVE SessionLoop(_, _, _)
(* The loop over by_tape in the order the HashMap yields its keys: a tape   *)
(* without a file is skipped, a file that does not decompress ends the      *)
(* command with an error.                                                    *)
SessionLoop(e, order, sessions) ==
    IF order = <<>> THEN [ok |-> TRUE, sessions |-> SortSessions(sessions, <<>>)]
    ELSE LET tape_id == Head(order)
         IN  IF e.file[tape_id] = "absent" THEN SessionLoop(e, Tail(order), sessions)
             ELSE IF e.file[tape_id] = "partial" THEN [ok |-> FALSE, sessions |-> <<>>]
             ELSE SessionLoop(e, Tail(order),
                     Append(sessions,
                            SessionOf(tape_id,
                                      SortedTouches(TouchOffsets(e.lines[tape_id]), <<>>),
                                      e.lines[tape_id], e.timestamp[tape_id])))

build_session_windows(e, order) == SessionLoop(e, order, <<>>)

LinesUpTo(n) == UNION { [1 .. k -> {"blank", "touch", "other"}] : k \in 0 .. n }

(* Two tapes in the store, the second at most half as long as the first. *)
InitSessions ==
    /\ evidence = <<>>
    /\ edges = <<>>
    /\ tombstones = <<>>
    /\ tapes = [t \in TapeIds |-> "absent"]
    /\ cursor = EmptyState
    /\ files = [p \in Paths |-> "c1"]
    /\ steps = 0
    /\ \E l1 \in LinesUpTo(MaxTapeLines), l2 \in LinesUpTo(MaxTapeLines \div 2),
          f1 \in {"complete", "absent", "partial"},
          f2 \in {"complete", "absent", "partial"},
          t1 \in 1 .. 2, t2 \in 1 .. 2 :
          last = [Last("init") EXCEPT
                    !.explain = [NoSessions EXCEPT !.lines = << l1, l2 >>,
                                                   !.file = << f1, f2 >>,
                                                   !.timestamp = << t1, t2 >>]]

BuildSessionWindows ==
    /\ ~last.explain.done
    /\ \E order \in {<< 1, 2 >>, << 2, 1 >>} :
        \E keys \in {SelectSeq(order,
                               LAMBDA t : TouchOffsets(last.explain.lines[t]) # {})} :
        \E r \in {build_session_windows(last.explain, keys)} :
          last' = [Last("explain") EXCEPT
                     !.ok = r.ok,
                     !.explain = [last.explain EXCEPT !.done = TRUE, !.ok = r.ok,
                                                      !.sessions = r.sessions]]
    /\ UNCHANGED <<evidence, edges, tombstones, files, tapes, cursor, steps>>

NextSessions == BuildSessionWindows

SpecSessions == InitSessions /\ [][NextSessions]_vars

Distance(a, b) == IF a >= b THEN a - b ELSE b - a

WindowsWithinRadius(sessions) ==
    \A i \in DOMAIN sessions : \A w \in DOMAIN sessions[i].windows :
      LET window == sessions[i].windows[w]
      IN  \A j \in DOMAIN window.events :
            Distance(window.events[j], window.touch_offset) <= 2

OneWindowPerTouch(e) ==
    /\ \A t \in DOMAIN e.lines :
         (e.file[t] = "complete" /\ TouchOffsets(e.lines[t]) # {}) <=>
            \E i \in DOMAIN e.sessions : e.sessions[i].tape_id = t
    /\ \A i \in DOMAIN e.sessions :
         LET s == e.sessions[i]
         IN  /\ Len(s.windows) = s.touch_count
             /\ s.touch_count = Cardinality(TouchOffsets(e.lines[s.tape_id]))
             /\ \A j \in DOMAIN s.windows :
                   /\ s.windows[j].touch_offset = s.touches[j]
                   /\ \E k \in DOMAIN s.windows[j].events :
                         s.windows[j].events[k] = s.touches[j]

SessionsSorted(sessions) ==
    \A i, j \in DOMAIN sessions :
      i < j =>
        \/ sessions[i].touch_count > sessions[j].touch_count
        \/ /\ sessions[i].touch_count = sessions[j].touch_count
           /\ sessions[i].latest_touch_timestamp >= sessions[j].latest_touch_timestamp

(* C33: in the sessions explain returns, every window holds only events      *)
(* whose offset is within 2 of the window's touch offset, every touch of a   *)
(* tape whose file was read has one window, and the sessions are sorted by   *)
(* touch_count descending, then latest_touch_timestamp descending.           *)
C33_SessionWindows ==
    (last.explain.done /\ last.explain.ok) =>
      /\ WindowsWithinRadius(last.explain.sessions)
      /\ OneWindowPerTouch(last.explain)
      /\ SessionsSorted(last.explain.sessions)

C33_OneWindowEachAndSorted ==
    (last.explain.done /\ last.explain.ok) =>
      /\ OneWindowPerTouch(last.explain)
      /\ SessionsSorted(last.explain.sessions)

----------------------------------------------------------------------------
(* main.rs: cmd_gc next to cmd_ingest or record_transcript in another       *)
(* process.  Each process takes its steps in program order; the store (the  *)
(* index and the tapes directory) is shared; each statement on the index is *)
(* one step, each file operation is one step.                                *)

(* The tapes of the catalogue that leave evidence or tombstone rows. *)
RaceTapes == {1, 4}

(* The states a tape can be in before the two processes start: not in the   *)
(* store, a file without rows (left by an ingest that stopped after the     *)
(* write), or file and rows.                                                 *)
InitRace ==
    /\ cursor = EmptyState
    /\ files = [p \in Paths |-> "c1"]
    /\ steps = 0
    /\ \E cmd \in {"ingest", "record"}, t \in RaceTapes,
          mine \in {"none", "orphan"}, other \in {"none", "orphan", "indexed"} :
        LET o == CHOOSE x \in RaceTapes : x # t
            db == IF other = "indexed" THEN TapeRows[o].db ELSE EmptyDb
        IN  /\ evidence = db.evidence
            /\ edges = db.edges
            /\ tombstones = db.tombstones
            /\ tapes = [x \in TapeIds |->
                          IF (x = t /\ mine = "orphan") \/ (x = o /\ other # "none")
                          THEN "complete" ELSE "absent"]
            /\ last = [Last("init") EXCEPT
                         !.race = [NoRace EXCEPT !.cmd = cmd, !.tape_id = t]]

(* cmd_ingest: tape_path.exists(), and fs::write when it does not. *)
IngestWriteTape ==
    /\ last.race.cmd = "ingest"
    /\ last.race.pc = "start"
    /\ tapes' = IF tapes[last.race.tape_id] # "absent" THEN tapes
                ELSE [tapes EXCEPT ![last.race.tape_id] = "complete"]
    /\ last' = [last EXCEPT !.race.pc = "written",
                            !.race.tape_file_exists = (tapes[last.race.tape_id] # "absent")]
    /\ UNCHANGED <<evidence, edges, tombstones, files, cursor, steps>>

(* has_tape and, when it is false, ingest_tape_events: of cmd_ingest after  *)
(* the write, of record_transcript before it.                                *)
CommitRows ==
    /\ \/ last.race.cmd = "ingest" /\ last.race.pc = "written"
       \/ last.race.cmd = "record" /\ last.race.pc = "start"
    /\ \E t \in {last.race.tape_id} :
       \E f \in {IF has_tape(CurDb, t) THEN Ok(CurDb)
                  ELSE ingest_tape_events(CurDb, t, parse_jsonl_events(Docs[t]).events,
                                          LINK_THRESHOLD_DEFAULT, 0)} :
         /\ evidence' = f.db.evidence
         /\ edges' = f.db.edges
         /\ tombstones' = f.db.tombstones
         /\ last' = IF last.race.cmd = "ingest"
                    THEN [last EXCEPT !.race.pc = "done"]
                    ELSE [last EXCEPT !.race.pc = "indexed",
                                      !.race.tape_file_exists = (tapes[t] # "absent")]
    /\ UNCHANGED <<files, tapes, cursor, steps>>

(* record_transcript: fs::write when tape_file_exists, read before the      *)
(* index was opened, was false.                                              *)
RecordWriteTape ==
    /\ last.race.cmd = "record"
    /\ last.race.pc = "indexed"
    /\ tapes' = IF last.race.tape_file_exists THEN tapes
                ELSE [tapes EXCEPT ![last.race.tape_id] = "complete"]
    /\ last' = [last EXCEPT !.race.pc = "done"]
    /\ UNCHANGED <<evidence, edges, tombstones, files, cursor, steps>>

(* cmd_gc: referenced_tape_ids, then fs::read_dir. *)
GcReferenced ==
    /\ last.race.gc = "start"
    /\ last' = [last EXCEPT !.race.gc = "scan",
                            !.race.referenced = referenced_tape_ids(CurDb),
                            !.race.listed = {t \in TapeIds : tapes[t] # "absent"}]
    /\ UNCHANGED <<evidence, edges, tombstones, files, tapes, cursor, steps>>

(* One turn of the loop over the directory entries: an entry that is not in *)
(* the referenced set is removed.                                            *)
GcEntry ==
    /\ last.race.gc = "scan"
    /\ \E t \in TapeIds :
         /\ tapes[t] # "absent"
         /\ t \notin last.race.visited
         /\ tapes' = IF t \in last.race.referenced THEN tapes
                     ELSE [tapes EXCEPT ![t] = "absent"]
         /\ last' = [last EXCEPT !.race.visited = @ \cup {t}]
    /\ UNCHANGED <<evidence, edges, tombstones, files, cursor, steps>>

(* The directory iterator ends: it has yielded every entry that existed     *)
(* when the directory was opened; an entry created since may have been      *)
(* yielded or not.                                                           *)
GcEnd ==
    /\ last.race.gc = "scan"
    /\ last.race.listed \subseteq last.race.visited
    /\ last' = [last EXCEPT !.race.gc = "done"]
    /\ UNCHANGED <<evidence, edges, tombstones, files, tapes, cursor, steps>>

NextRace ==
    \/ IngestWriteTape
    \/ CommitRows
    \/ RecordWriteTape
    \/ GcReferenced
    \/ GcEntry
    \/ GcEnd

SpecRace == InitRace /\ [][NextRace]_vars

(* C34: when gc runs next to an ingest or a record command, once both have  *)
(* finished every tape id that an evidence or tombstone row refers to has   *)
(* its tape file.                                                            *)
C34_GcKeepsCommittedTapes ==
    (last.race.pc = "done" /\ last.race.gc = "done") =>
      \A t \in referenced_tape_ids(CurDb) : tapes[t] # "absent"

----------------------------------------------------------------------------
(* An ingest that is killed, then run again over the same inputs.  A kill   *)
(* leaves what the fault of the same place leaves: no cursor state, the     *)
(* transaction in progress rolled back, the file being written cut short.   *)

(* The index after one uninterrupted ingest of the initial source files,    *)
(* whose tapes are 1 and 3.                                                  *)
UninterruptedRun ==
    ingest_tape_events(TapeRows[1].db, 3, parse_jsonl_events(Docs[3]).events,
                       LINK_THRESHOLD_DEFAULT, 0).db

SameRowsAsUninterruptedRun(ev, ed, tb) ==
    /\ Rows(ev) = Rows(UninterruptedRun.evidence)
    /\ Rows(ed) = Rows(UninterruptedRun.edges)
    /\ Rows(tb) = Rows(UninterruptedRun.tombstones)

(* The first command was an ingest that was killed, this one is an ingest   *)
(* that runs to its end.                                                     *)
RerunAfterKill ==
    /\ steps = 1
    /\ last.cmd = "ingest"
    /\ last.faulted
    /\ last'.cmd = "ingest"
    /\ last'.ok
    /\ ~last'.faulted

(* An uninterrupted first ingest ends in the state UninterruptedRun says. *)
UninterruptedRunIsFirstIngest ==
    [][(steps = 0 /\ last'.cmd = "ingest" /\ last'.ok /\ ~last'.faulted) =>
         /\ SameRowsAsUninterruptedRun(evidence', edges', tombstones')
         /\ tapes' = [t \in TapeIds |-> IF t \in {1, 3} THEN "complete" ELSE "absent"]]_vars

(* C35: an ingest killed at any point and then run again to its end over    *)
(* the same inputs ends in the state of one uninterrupted run: the same     *)
(* index rows, and a complete tape file for every ingested tape.            *)
C35_RerunEqualsUninterruptedRun ==
    [][RerunAfterKill =>
         /\ SameRowsAsUninterruptedRun(evidence', edges', tombstones')
         /\ tapes' = [t \in TapeIds |-> IF t \in {1, 3} THEN "complete" ELSE "absent"]]_vars

(* The index rows, and the presence of the tape files, do equal those of    *)
(* the uninterrupted run.                                                    *)
RerunRowsEqualUninterruptedRun ==
    [][RerunAfterKill =>
         /\ SameRowsAsUninterruptedRun(evidence', edges', tombstones')
         /\ \A t \in TapeIds : (tapes'[t] # "absent") <=> (t \in {1, 3})]_vars

----------------------------------------------------------------------------
(* index/mod.rs: init_schema and migrate_legacy_schema_to_v1 statement by   *)
(* statement, with a process that can be killed between two statements.     *)
(* The renames are one transaction; every statement of the second batch     *)
(* commits by itself.                                                        *)

MaxKills == 1

LegacyTables == {"evidence_legacy", "edges_legacy", "tombstones_legacy"}

MigrationSteps == {"rename", "create", "copy_evidence", "copy_edges", "copy_tombstones",
                   "drop_evidence", "drop_edges", "drop_tombstones", "set_version"}

(* A store with the three legacy tables and any of the legacy rows. *)
InitMigration ==
    /\ tapes = [t \in TapeIds |-> "absent"]
    /\ cursor = EmptyState
    /\ steps = 0
    /\ files = [index |-> IndexFile(0, "delete", SchemaTables)]
    /\ \E ev \in SUBSET DOMAIN LegacyEvidence,
          ed \in SUBSET DOMAIN LegacyEdges,
          tb \in SUBSET DOMAIN LegacyTombstones :
        LET legacy == Db(PickRows(LegacyEvidence, ev, 1), PickRows(LegacyEdges, ed, 1),
                         PickRows(LegacyTombstones, tb, 1))
        IN /\ evidence = legacy.evidence
           /\ edges = legacy.edges
           /\ tombstones = legacy.tombstones
           /\ last = [Last("init") EXCEPT
                        !.migration = [NoMigration EXCEPT
                                         !.legacy = EmptyDb, !.original = legacy]]

MigrationAt(pc) == last.migration.pc = pc

Goto(pc) == last' = [last EXCEPT !.cmd = "open", !.migration.pc = pc]

Return(ok) == last' = [last EXCEPT !.cmd = "open", !.migration.pc = "done",
                                   !.migration.ok = ok, !.ok = ok]

(* init_schema up to the branch on user_version and table_exists; the two   *)
(* branches without migration run to their end.                              *)
OpenStart ==
    /\ MigrationAt("closed")
    /\ LET wal == [files.index EXCEPT !.journal_mode = "wal"]
       IN  IF wal.user_version = 0 /\ "evidence" \in wal.tables
           THEN /\ files' = [index |-> wal]
                /\ Goto("rename")
           ELSE \E res \in {init_schema(files.index, CurDb)} :
                  /\ files' = [index |-> res.file]
                  /\ Return(res.ok)
    /\ UNCHANGED <<evidence, edges, tombstones, tapes, cursor, steps>>

(* BEGIN IMMEDIATE; ALTER TABLE ... RENAME TO ..._legacy (three times);     *)
(* COMMIT.  A rename fails when its table is missing or the new name is     *)
(* taken; the transaction is then rolled back and open returns the error.   *)
RenameLegacy ==
    /\ MigrationAt("rename")
    /\ IF SchemaTables \subseteq files.index.tables
          /\ files.index.tables \cap LegacyTables = {}
       THEN /\ files' = [index |-> [files.index EXCEPT !.tables = LegacyTables]]
            /\ last' = [last EXCEPT !.cmd = "open", !.migration.pc = "create",
                                    !.migration.legacy = CurDb]
            /\ SetDb(EmptyDb)
       ELSE /\ Return(FALSE)
            /\ UNCHANGED <<files, evidence, edges, tombstones>>
    /\ UNCHANGED <<tapes, cursor, steps>>

CreateSchemaV1 ==
    /\ MigrationAt("create")
    /\ files' = [index |-> create_schema_v1(files.index)]
    /\ Goto("copy_evidence")
    /\ UNCHANGED <<evidence, edges, tombstones, tapes, cursor, steps>>

(* One INSERT OR IGNORE INTO <table> SELECT ... FROM <table>_legacy. *)
CopyLegacyTable ==
    /\ \E step \in {"copy_evidence", "copy_edges", "copy_tombstones"} :
         /\ MigrationAt(step)
         /\ LET legacy == last.migration.legacy
                part == IF step = "copy_evidence" THEN Db(legacy.evidence, <<>>, <<>>)
                        ELSE IF step = "copy_edges" THEN Db(<<>>, legacy.edges, <<>>)
                        ELSE Db(<<>>, <<>>, legacy.tombstones)
            IN  SetDb(CopyLegacyRows(CurDb, part, 1))
         /\ Goto(IF step = "copy_evidence" THEN "copy_edges"
                 ELSE IF step = "copy_edges" THEN "copy_tombstones"
                 ELSE "drop_evidence")
    /\ UNCHANGED <<files, tapes, cursor, steps>>

(* One DROP TABLE <table>_legacy. *)
DropLegacyTable ==
    /\ \E step \in {"drop_evidence", "drop_edges", "drop_tombstones"} :
         /\ MigrationAt(step)
         /\ LET table == IF step = "drop_evidence" THEN "evidence_legacy"
                         ELSE IF step = "drop_edges" THEN "edges_legacy"
                         ELSE "tombstones_legacy"
            IN  files' = [index |-> [files.index EXCEPT !.tables = @ \ {table}]]
         /\ last' = [last EXCEPT
                       !.cmd = "open",
                       !.migration.pc = IF step = "drop_evidence" THEN "drop_edges"
                                        ELSE IF step = "drop_edges" THEN "drop_tombstones"
                                        ELSE "set_version",
                       !.migration.legacy =
                           IF step = "drop_evidence" THEN [@ EXCEPT !.evidence = <<>>]
                           ELSE IF step = "drop_edges" THEN [@ EXCEPT !.edges = <<>>]
                           ELSE [@ EXCEPT !.tombstones = <<>>]]
    /\ UNCHANGED <<evidence, edges, tombstones, tapes, cursor, steps>>

(* PRAGMA user_version = 1; the open returns Ok. *)
SetUserVersion ==
    /\ MigrationAt("set_version")
    /\ files' = [index |-> [files.index EXCEPT !.user_version = 1]]
    /\ Return(TRUE)
    /\ UNCHANGED <<evidence, edges, tombstones, tapes, cursor, steps>>

(* The process is killed before the statement it is at: what is committed   *)
(* stays, the renames not yet committed are rolled back.                     *)
KillMigration ==
    /\ last.migration.pc \in MigrationSteps
    /\ last.migration.kills < MaxKills
    /\ last' = [last EXCEPT !.cmd = "kill", !.migration.pc = "closed",
                            !.migration.kills = @ + 1]
    /\ UNCHANGED <<evidence, edges, tombstones, files, tapes, cursor, steps>>

NextMigration ==
    \/ OpenStart
    \/ RenameLegacy
    \/ CreateSchemaV1
    \/ CopyLegacyTable
    \/ DropLegacyTable
    \/ SetUserVersion
    \/ KillMigration

SpecMigration == InitMigration /\ [][NextMigration]_vars

(* The open after a kill has ended. *)
OpenedAfterKill ==
    /\ last.migration.pc = "done"
    /\ last.migration.kills > 0

(* C36: when the process was killed during the legacy-to-v1 migration, the  *)
(* next open succeeds and ends with version 1 and with every legacy         *)
(* evidence, edge and tombstone row in the v1 tables.                        *)
C36_KilledMigrationLosesNoRow ==
    OpenedAfterKill =>
      /\ last.migration.ok
      /\ files.index.user_version = 1
      /\ Rows(last.migration.original.evidence) \subseteq Rows(evidence)
      /\ { MigratedEdge(r) : r \in Rows(last.migration.original.edges) }
            \subseteq Rows(edges)
      /\ Rows(last.migration.original.tombstones) \subseteq Rows(tombstones)

(* The open after a kill ends as a migration without a kill ends. *)
KilledMigrationEndsAsMigration ==
    OpenedAfterKill =>
      /\ last.migration.ok
      /\ files.index = IndexFile(1, "wal", SchemaTables)
      /\ CurDb = CopyLegacyRows(EmptyDb, last.migration.original, 1)

(* A migration without a kill ends as migrate_legacy_schema_to_v1 says. *)
MigrationStepsAreMigration ==
    (last.migration.pc = "done" /\ last.migration.kills = 0) =>
      /\ last.migration.ok
      /\ files.index = IndexFile(1, "wal", SchemaTables)
      /\ CurDb = CopyLegacyRows(EmptyDb, last.migration.original, 1)

----------------------------------------------------------------------------
(* The edges retrieve_lineage returns, as rows of the edges table.          *)

(* The positions of the lineage that hold the stored row r. *)
ReturnedAt(t, r) == { k \in DOMAIN t.out : t.out[k] = EdgeRow(r) }

(* C37: the lineage retrieve_lineage returns holds stored edges only, and no *)
(* stored edge twice, whatever the seeds (repeated seeds included) and the   *)
(* graph (cycles and anchors reached along several paths included).          *)
C37_NoStoredEdgeTwice ==
    LET t == last.lineage
    IN /\ \A k \in DOMAIN t.out : \E r \in Rows(edges) : k \in ReturnedAt(t, r)
       /\ \A r \in Rows(edges) : Cardinality(ReturnedAt(t, r)) <= 1

(* A finished traversal from the seeds c and b of the graph with the cycle  *)
(* a -> b -> c -> a and the self-loop on b: b is a seed and is reached from *)
(* c, a is reached from b, and each of the five visible edges was returned. *)
C37_Witness ==
    LET t == last.lineage
    IN /\ t.pc = "done"
       /\ t.seeds = <<"c", "b">>
       /\ Len(edges) = Len(GraphEdges)
       /\ Len(t.out) = 5
       /\ \E k \in DOMAIN t.out : t.out[k].from_anchor = "c" /\ t.out[k].to_anchor = "a"
       /\ \E k \in DOMAIN t.out : t.out[k].from_anchor = "b" /\ t.out[k].to_anchor = "b"

----------------------------------------------------------------------------
(* The lineage as max_depth grows.                                          *)

(* What retrieve_lineage returns for the arguments of the finished          *)
(* traversal t with max_depth one larger.                                    *)
OneDeeper(t) ==
    retrieve_lineage(CurDb, t.seeds,
                     ExplainTraversal(t.min_confidence, t.max_fanout, t.max_edges,
                                      t.max_depth + 1),
                     t.include_forensics, t.tie).out

(* C38: with the same index, seeds, min_confidence, max_fanout, max_edges   *)
(* and forensics flag, the lineage returned for max_depth = d is a prefix   *)
(* of the lineage returned for max_depth = d + 1; and the to_anchor of      *)
(* every returned edge is a seed or the from_anchor of an edge earlier in   *)
(* the list.                                                                 *)
C38_DeeperLineageExtends ==
    LET t == last.lineage
    IN t.pc = "done" =>
         /\ IsPrefix(t.out, OneDeeper(t))
         /\ \A k \in DOMAIN t.out :
               \/ \E s \in DOMAIN t.seeds : t.seeds[s] = t.out[k].to_anchor
               \/ \E j \in 1 .. k - 1 : t.out[j].from_anchor = t.out[k].to_anchor

(* A finished traversal with max_depth = 2 from the seed c that returned    *)
(* edges, the last of them into an anchor that is not a seed, and to which  *)
(* one more level adds edges.                                                *)
C38_Witness ==
    LET t == last.lineage
    IN /\ t.pc = "done"
       /\ t.max_depth = 2
       /\ t.seeds = <<"c">>
       /\ Len(t.out) >= 2
       /\ t.out[Len(t.out)].to_anchor # "c"
       /\ Len(OneDeeper(t)) > Len(t.out)

----------------------------------------------------------------------------
(* The cursor state after an ingest run in which an input failed.           *)

(* The outcome of the candidate in the run of this step. *)
OutcomeOf(candidate) == last'.outcome[StateKey(candidate)]

(* The next run will not skip the candidate as unchanged. *)
ProcessedAgain(candidate) ==
    LET entry == cursor'[StateKey(candidate)]
    IN ~(entry.present /\ entry.input_hash = sha256_hex(files'[candidate.path]))

(* The run left the cursor entry of the candidate as it was, and the next   *)
(* run will process the candidate again.                                     *)
FailedInputNotRecorded(candidate) ==
    /\ cursor'[StateKey(candidate)] = cursor[StateKey(candidate)]
    /\ ProcessedAgain(candidate)

(* The cursor entry of the candidate holds its input_hash and tape_id. *)
SucceededInputRecorded(candidate) ==
    cursor'[StateKey(candidate)] =
        [present |-> TRUE, input_hash |-> sha256_hex(files[candidate.path]),
         adapter |-> candidate.adapter, tape_id |-> TapeOf(candidate)]

(* An ingest run in which the processing of an input failed. *)
IngestWithFailedInput ==
    /\ last'.cmd = "ingest"
    /\ \E i \in DOMAIN Candidates : OutcomeOf(Candidates[i]) \in {"failed", "aborted"}

(* C39: an input whose processing failed in an ingest run is not written to *)
(* the cursor state, so that the next run processes it again instead of     *)
(* skipping it as unchanged, and the inputs that succeeded in the same run  *)
(* are recorded with their input_hash and tape_id.                           *)
C39_FailedInputsRetriedOthersRecorded ==
    [][IngestWithFailedInput =>
         \A i \in DOMAIN Candidates :
            /\ OutcomeOf(Candidates[i]) \in {"failed", "aborted"}
                  => FailedInputNotRecorded(Candidates[i])
            /\ OutcomeOf(Candidates[i]) \in {"imported", "skipped_existing_tape"}
                  => SucceededInputRecorded(Candidates[i])]_vars

(* The first half holds in every run, the second in every run that reaches  *)
(* save_ingest_state.                                                        *)
FailedInputsRetried ==
    [][IngestWithFailedInput =>
         \A i \in DOMAIN Candidates :
            /\ OutcomeOf(Candidates[i]) \in {"failed", "aborted"}
                  => FailedInputNotRecorded(Candidates[i])
            /\ (last'.ok /\ OutcomeOf(Candidates[i]) \in {"imported", "skipped_existing_tape"})
                  => SucceededInputRecorded(Candidates[i])]_vars
====
